---- MODULE Spec2Model ----
(***************************************************************************)
(* A model of the H3 grid-traversal core: the cell index and its digit     *)
(* algebra (h3Index.c, coordijk.c), the neighbor walk h3NeighborRotations  *)
(* and the loop tracer _getEdgeHexagons (algos.c).                         *)
(*                                                                         *)
(* An H3Index is modelled as the record of its bit fields: mode,           *)
(* resolution, base cell and the fifteen 3-bit digit slots; the 64-bit     *)
(* word itself appears where the code works on the word (_zeroIndexDigits, *)
(* the hash of _getEdgeHexagons).                                          *)
(***************************************************************************)
EXTENDS Integers, Sequences, FiniteSets, TLC

(***************************************************************************)
(* Bounds of the model.                                                    *)
(***************************************************************************)
\* finest resolution of the cells the neighbor walk is started from
MaxRes == 2
\* rotation counts passed in range over -MaxRot..MaxRot
MaxRot == 7
\* directions passed in range over -1..MaxDir (7 is INVALID_DIGIT)
MaxDir == 8

(***************************************************************************)
(* Direction digits (enum Direction) and index layout constants.           *)
(***************************************************************************)
CENTER_DIGIT == 0
K_AXES_DIGIT == 1
J_AXES_DIGIT == 2
JK_AXES_DIGIT == 3
I_AXES_DIGIT == 4
IK_AXES_DIGIT == 5
IJ_AXES_DIGIT == 6
INVALID_DIGIT == 7

MAX_H3_RES == 15
NUM_BASE_CELLS == 122
INVALID_BASE_CELL == 127
H3_CELL_MODE == 1

\* the C remainder a % b for b > 0: truncation toward zero
CRem(a, b) == IF a >= 0 THEN a % b ELSE -((-a) % b)

(***************************************************************************)
(* coordijk.c: rotation of one digit.                                      *)
(***************************************************************************)
\* _rotate60ccw with the arm of IK going to IJ, past I
_rotate60ccw_SkipsI(digit) ==
  CASE digit = K_AXES_DIGIT -> IK_AXES_DIGIT
    [] digit = IK_AXES_DIGIT -> IJ_AXES_DIGIT
    [] digit = I_AXES_DIGIT -> IJ_AXES_DIGIT
    [] digit = IJ_AXES_DIGIT -> J_AXES_DIGIT
    [] digit = J_AXES_DIGIT -> JK_AXES_DIGIT
    [] digit = JK_AXES_DIGIT -> K_AXES_DIGIT
    [] OTHER -> digit

_rotate60ccw(digit) ==
  CASE digit = K_AXES_DIGIT -> IK_AXES_DIGIT
    [] digit = IK_AXES_DIGIT -> I_AXES_DIGIT
    [] digit = I_AXES_DIGIT -> IJ_AXES_DIGIT
    [] digit = IJ_AXES_DIGIT -> J_AXES_DIGIT
    [] digit = J_AXES_DIGIT -> JK_AXES_DIGIT
    [] digit = JK_AXES_DIGIT -> K_AXES_DIGIT
    [] OTHER -> digit

_rotate60cw(digit) ==
  CASE digit = K_AXES_DIGIT -> JK_AXES_DIGIT
    [] digit = JK_AXES_DIGIT -> J_AXES_DIGIT
    [] digit = J_AXES_DIGIT -> IJ_AXES_DIGIT
    [] digit = IJ_AXES_DIGIT -> I_AXES_DIGIT
    [] digit = I_AXES_DIGIT -> IK_AXES_DIGIT
    [] digit = IK_AXES_DIGIT -> K_AXES_DIGIT
    [] OTHER -> digit

(***************************************************************************)
(* The index as a record of its fields, and the accessor macros.           *)
(***************************************************************************)
H3_GET_RESOLUTION(hh) == hh.res
H3_GET_BASE_CELL(hh) == hh.bc
H3_SET_BASE_CELL(hh, bc) == [hh EXCEPT !.bc = bc]
H3_GET_INDEX_DIGIT(hh, r) == hh.digits[r]
H3_SET_INDEX_DIGIT(hh, r, d) == [hh EXCEPT !.digits[r] = d]

\* H3_INIT: mode, resolution and base cell 0, every digit slot 7
H3_INIT ==
  [mode |-> 0, res |-> 0, bc |-> 0,
   digits |-> [r \in 1..MAX_H3_RES |-> INVALID_DIGIT]]

\* setH3Index, the index it stores in *hp
setH3Index(res, baseCell, initDigit) ==
  [mode |-> H3_CELL_MODE, res |-> res, bc |-> baseCell,
   digits |-> [r \in 1..MAX_H3_RES |->
                 IF r <= res THEN initDigit ELSE H3_INIT.digits[r]]]

\* the first non-zero digit among levels 1..res, CENTER if there is none
_h3LeadingNonZeroDigit(hh) ==
  LET nz == {r \in 1..H3_GET_RESOLUTION(hh) : H3_GET_INDEX_DIGIT(hh, r) # 0}
  IN IF nz = {} THEN CENTER_DIGIT
     ELSE H3_GET_INDEX_DIGIT(hh, CHOOSE r \in nz : \A s \in nz : r <= s)

RECURSIVE Rotate60ccwFrom(_, _)
\* the loop of _h3Rotate60ccw from level r on
Rotate60ccwFrom(hh, r) ==
  IF r > H3_GET_RESOLUTION(hh) THEN hh
  ELSE Rotate60ccwFrom(
         H3_SET_INDEX_DIGIT(hh, r, _rotate60ccw(H3_GET_INDEX_DIGIT(hh, r))),
         r + 1)

_h3Rotate60ccw(hh) == Rotate60ccwFrom(hh, 1)

RECURSIVE Rotate60cwFrom(_, _)
\* the loop of _h3Rotate60cw from level r on
Rotate60cwFrom(hh, r) ==
  IF r > H3_GET_RESOLUTION(hh) THEN hh
  ELSE Rotate60cwFrom(
         H3_SET_INDEX_DIGIT(hh, r, _rotate60cw(H3_GET_INDEX_DIGIT(hh, r))),
         r + 1)

_h3Rotate60cw(hh) == Rotate60cwFrom(hh, 1)

RECURSIVE RotatePent60ccwFrom_RestOnly(_, _, _)
\* the loop of _h3RotatePent60ccw with the extra rotation applied to the
\* levels after r only
RotatePent60ccwFrom_RestOnly(hh, r, foundFirstNonZeroDigit) ==
  IF r > H3_GET_RESOLUTION(hh) THEN hh
  ELSE LET h1 == H3_SET_INDEX_DIGIT(hh, r,
                   _rotate60ccw(H3_GET_INDEX_DIGIT(hh, r)))
       IN IF ~foundFirstNonZeroDigit /\ H3_GET_INDEX_DIGIT(h1, r) # 0
          THEN RotatePent60ccwFrom_RestOnly(
                 IF _h3LeadingNonZeroDigit(h1) = K_AXES_DIGIT
                 THEN Rotate60ccwFrom(h1, r + 1) ELSE h1,
                 r + 1, TRUE)
          ELSE RotatePent60ccwFrom_RestOnly(h1, r + 1, foundFirstNonZeroDigit)

RECURSIVE RotatePent60ccwFrom(_, _, _)
\* the loop of _h3RotatePent60ccw from level r on; the index is rotated in
\* place, and the extra whole-index rotation acts on the half-rotated index
RotatePent60ccwFrom(hh, r, foundFirstNonZeroDigit) ==
  IF r > H3_GET_RESOLUTION(hh) THEN hh
  ELSE LET h1 == H3_SET_INDEX_DIGIT(hh, r,
                   _rotate60ccw(H3_GET_INDEX_DIGIT(hh, r)))
       IN IF ~foundFirstNonZeroDigit /\ H3_GET_INDEX_DIGIT(h1, r) # 0
          THEN RotatePent60ccwFrom(
                 IF _h3LeadingNonZeroDigit(h1) = K_AXES_DIGIT
                 THEN _h3Rotate60ccw(h1) ELSE h1,
                 r + 1, TRUE)
          ELSE RotatePent60ccwFrom(h1, r + 1, foundFirstNonZeroDigit)

_h3RotatePent60ccw(hh) == RotatePent60ccwFrom(hh, 1, FALSE)

RECURSIVE RotatePent60cwFrom_NoAdjust(_, _, _)
\* the loop of _h3RotatePent60cw without the adjustment of line 114
RotatePent60cwFrom_NoAdjust(hh, r, foundFirstNonZeroDigit) ==
  IF r > H3_GET_RESOLUTION(hh) THEN hh
  ELSE LET h1 == H3_SET_INDEX_DIGIT(hh, r,
                   _rotate60cw(H3_GET_INDEX_DIGIT(hh, r)))
       IN IF ~foundFirstNonZeroDigit /\ H3_GET_INDEX_DIGIT(h1, r) # 0
          THEN RotatePent60cwFrom_NoAdjust(h1, r + 1, TRUE)
          ELSE RotatePent60cwFrom_NoAdjust(h1, r + 1, foundFirstNonZeroDigit)

RECURSIVE RotatePent60cwFrom(_, _, _)
\* the loop of _h3RotatePent60cw from level r on
RotatePent60cwFrom(hh, r, foundFirstNonZeroDigit) ==
  IF r > H3_GET_RESOLUTION(hh) THEN hh
  ELSE LET h1 == H3_SET_INDEX_DIGIT(hh, r,
                   _rotate60cw(H3_GET_INDEX_DIGIT(hh, r)))
       IN IF ~foundFirstNonZeroDigit /\ H3_GET_INDEX_DIGIT(h1, r) # 0
          THEN RotatePent60cwFrom(
                 IF _h3LeadingNonZeroDigit(h1) = K_AXES_DIGIT
                 THEN _h3Rotate60cw(h1) ELSE h1,
                 r + 1, TRUE)
          ELSE RotatePent60cwFrom(h1, r + 1, foundFirstNonZeroDigit)

_h3RotatePent60cw(hh) == RotatePent60cwFrom(hh, 1, FALSE)

isResolutionClassIII(res) == res % 2

(***************************************************************************)
(* algos.c: the four grid-step tables.                                     *)
(***************************************************************************)
\* NEW_DIGIT_II[currentDigit][direction], rows and columns from CENTER_DIGIT
NEW_DIGIT_II ==
  <<
     <<CENTER_DIGIT, K_AXES_DIGIT, J_AXES_DIGIT, JK_AXES_DIGIT,
       I_AXES_DIGIT, IK_AXES_DIGIT, IJ_AXES_DIGIT>>,
     <<K_AXES_DIGIT, I_AXES_DIGIT, JK_AXES_DIGIT, IJ_AXES_DIGIT,
       IK_AXES_DIGIT, J_AXES_DIGIT, CENTER_DIGIT>>,
     <<J_AXES_DIGIT, JK_AXES_DIGIT, K_AXES_DIGIT, I_AXES_DIGIT,
       IJ_AXES_DIGIT, CENTER_DIGIT, IK_AXES_DIGIT>>,
     <<JK_AXES_DIGIT, IJ_AXES_DIGIT, I_AXES_DIGIT, IK_AXES_DIGIT,
       CENTER_DIGIT, K_AXES_DIGIT, J_AXES_DIGIT>>,
     <<I_AXES_DIGIT, IK_AXES_DIGIT, IJ_AXES_DIGIT, CENTER_DIGIT,
       J_AXES_DIGIT, JK_AXES_DIGIT, K_AXES_DIGIT>>,
     <<IK_AXES_DIGIT, J_AXES_DIGIT, CENTER_DIGIT, K_AXES_DIGIT,
       JK_AXES_DIGIT, IJ_AXES_DIGIT, I_AXES_DIGIT>>,
     <<IJ_AXES_DIGIT, CENTER_DIGIT, IK_AXES_DIGIT, J_AXES_DIGIT,
       K_AXES_DIGIT, I_AXES_DIGIT, JK_AXES_DIGIT>>
  >>

\* NEW_ADJUSTMENT_II[currentDigit][direction], rows and columns from CENTER_DIGIT
NEW_ADJUSTMENT_II ==
  <<
     <<CENTER_DIGIT, CENTER_DIGIT, CENTER_DIGIT, CENTER_DIGIT,
       CENTER_DIGIT, CENTER_DIGIT, CENTER_DIGIT>>,
     <<CENTER_DIGIT, K_AXES_DIGIT, CENTER_DIGIT, K_AXES_DIGIT,
       CENTER_DIGIT, IK_AXES_DIGIT, CENTER_DIGIT>>,
     <<CENTER_DIGIT, CENTER_DIGIT, J_AXES_DIGIT, JK_AXES_DIGIT,
       CENTER_DIGIT, CENTER_DIGIT, J_AXES_DIGIT>>,
     <<CENTER_DIGIT, K_AXES_DIGIT, JK_AXES_DIGIT, JK_AXES_DIGIT,
       CENTER_DIGIT, CENTER_DIGIT, CENTER_DIGIT>>,
     <<CENTER_DIGIT, CENTER_DIGIT, CENTER_DIGIT, CENTER_DIGIT,
       I_AXES_DIGIT, I_AXES_DIGIT, IJ_AXES_DIGIT>>,
     <<CENTER_DIGIT, IK_AXES_DIGIT, CENTER_DIGIT, CENTER_DIGIT,
       I_AXES_DIGIT, IK_AXES_DIGIT, CENTER_DIGIT>>,
     <<CENTER_DIGIT, CENTER_DIGIT, J_AXES_DIGIT, CENTER_DIGIT,
       IJ_AXES_DIGIT, CENTER_DIGIT, IJ_AXES_DIGIT>>
  >>

\* NEW_DIGIT_III[currentDigit][direction], rows and columns from CENTER_DIGIT
NEW_DIGIT_III ==
  <<
     <<CENTER_DIGIT, K_AXES_DIGIT, J_AXES_DIGIT, JK_AXES_DIGIT,
       I_AXES_DIGIT, IK_AXES_DIGIT, IJ_AXES_DIGIT>>,
     <<K_AXES_DIGIT, J_AXES_DIGIT, JK_AXES_DIGIT, I_AXES_DIGIT,
       IK_AXES_DIGIT, IJ_AXES_DIGIT, CENTER_DIGIT>>,
     <<J_AXES_DIGIT, JK_AXES_DIGIT, I_AXES_DIGIT, IK_AXES_DIGIT,
       IJ_AXES_DIGIT, CENTER_DIGIT, K_AXES_DIGIT>>,
     <<JK_AXES_DIGIT, I_AXES_DIGIT, IK_AXES_DIGIT, IJ_AXES_DIGIT,
       CENTER_DIGIT, K_AXES_DIGIT, J_AXES_DIGIT>>,
     <<I_AXES_DIGIT, IK_AXES_DIGIT, IJ_AXES_DIGIT, CENTER_DIGIT,
       K_AXES_DIGIT, J_AXES_DIGIT, JK_AXES_DIGIT>>,
     <<IK_AXES_DIGIT, IJ_AXES_DIGIT, CENTER_DIGIT, K_AXES_DIGIT,
       J_AXES_DIGIT, JK_AXES_DIGIT, I_AXES_DIGIT>>,
     <<IJ_AXES_DIGIT, CENTER_DIGIT, K_AXES_DIGIT, J_AXES_DIGIT,
       JK_AXES_DIGIT, I_AXES_DIGIT, IK_AXES_DIGIT>>
  >>

\* NEW_ADJUSTMENT_III[currentDigit][direction], rows and columns from CENTER_DIGIT
NEW_ADJUSTMENT_III ==
  <<
     <<CENTER_DIGIT, CENTER_DIGIT, CENTER_DIGIT, CENTER_DIGIT,
       CENTER_DIGIT, CENTER_DIGIT, CENTER_DIGIT>>,
     <<CENTER_DIGIT, K_AXES_DIGIT, CENTER_DIGIT, JK_AXES_DIGIT,
       CENTER_DIGIT, K_AXES_DIGIT, CENTER_DIGIT>>,
     <<CENTER_DIGIT, CENTER_DIGIT, J_AXES_DIGIT, J_AXES_DIGIT,
       CENTER_DIGIT, CENTER_DIGIT, IJ_AXES_DIGIT>>,
     <<CENTER_DIGIT, JK_AXES_DIGIT, J_AXES_DIGIT, JK_AXES_DIGIT,
       CENTER_DIGIT, CENTER_DIGIT, CENTER_DIGIT>>,
     <<CENTER_DIGIT, CENTER_DIGIT, CENTER_DIGIT, CENTER_DIGIT,
       I_AXES_DIGIT, IK_AXES_DIGIT, I_AXES_DIGIT>>,
     <<CENTER_DIGIT, K_AXES_DIGIT, CENTER_DIGIT, CENTER_DIGIT,
       IK_AXES_DIGIT, IK_AXES_DIGIT, CENTER_DIGIT>>,
     <<CENTER_DIGIT, CENTER_DIGIT, IJ_AXES_DIGIT, CENTER_DIGIT,
       I_AXES_DIGIT, CENTER_DIGIT, IJ_AXES_DIGIT>>
  >>

(***************************************************************************)
(* The base-cell tables (baseCells.c of the library, consumed by algos.c   *)
(* as a lookup service): the rows of the reference table for the base      *)
(* cells around the polar pentagon 4 and the pentagon 14.                  *)
(***************************************************************************)
\* the twelve pentagon base cells
PentagonBaseCells == {4, 14, 24, 38, 49, 58, 63, 72, 83, 97, 107, 117}

_isBaseCellPentagon(baseCell) == baseCell \in PentagonBaseCells

_isBaseCellPolarPentagon(baseCell) == baseCell = 4 \/ baseCell = 117

\* baseCellNeighbors[baseCell][direction], columns from CENTER_DIGIT
baseCellNeighbors ==
  0 :> <<0, 1, 5, 2, 4, 3, 8>> @@
  1 :> <<1, 7, 6, 9, 0, 3, 2>> @@
  2 :> <<2, 6, 10, 11, 0, 1, 5>> @@
  3 :> <<3, 13, 1, 7, 4, 12, 0>> @@
  4 :> <<4, INVALID_BASE_CELL, 15, 8, 3, 0, 12>> @@
  5 :> <<5, 2, 18, 10, 8, 0, 16>> @@
  6 :> <<6, 14, 11, 17, 1, 9, 2>> @@
  7 :> <<7, 21, 9, 19, 3, 13, 1>> @@
  8 :> <<8, 5, 22, 16, 4, 0, 15>> @@
  9 :> <<9, 19, 14, 20, 1, 7, 6>> @@
  12 :> <<12, 28, 13, 26, 4, 15, 3>> @@
  14 :> <<14, INVALID_BASE_CELL, 17, 27, 9, 20, 6>> @@
  15 :> <<15, 22, 28, 31, 4, 8, 12>> @@
  16 :> <<16, 18, 33, 30, 8, 5, 22>> @@
  19 :> <<19, 34, 20, 36, 7, 21, 9>> @@
  20 :> <<20, 14, 19, 9, 40, 27, 36>> @@
  22 :> <<22, 16, 41, 33, 15, 8, 31>>

\* baseCellNeighbor60CCWRots[baseCell][direction], columns from CENTER_DIGIT
baseCellNeighbor60CCWRots ==
  0 :> <<0, 5, 0, 0, 1, 5, 1>> @@
  1 :> <<0, 0, 1, 0, 1, 0, 1>> @@
  2 :> <<0, 0, 0, 0, 0, 5, 0>> @@
  3 :> <<0, 5, 0, 0, 2, 5, 1>> @@
  4 :> <<0, -1, 1, 0, 3, 4, 2>> @@
  5 :> <<0, 0, 1, 0, 1, 0, 1>> @@
  6 :> <<0, 0, 0, 3, 5, 5, 0>> @@
  7 :> <<0, 0, 0, 0, 0, 5, 0>> @@
  8 :> <<0, 5, 0, 0, 0, 5, 1>> @@
  9 :> <<0, 0, 1, 3, 0, 0, 1>> @@
  12 :> <<0, 5, 0, 0, 3, 5, 1>> @@
  14 :> <<0, -1, 3, 0, 5, 2, 0>> @@
  15 :> <<0, 5, 0, 0, 4, 5, 1>> @@
  16 :> <<0, 0, 0, 0, 0, 5, 0>> @@
  19 :> <<0, 3, 3, 3, 0, 0, 0>> @@
  20 :> <<0, 3, 3, 3, 0, 3, 0>> @@
  22 :> <<0, 0, 1, 0, 1, 0, 1>>

\* baseCellData[baseCell].homeFijk.face
baseCellHomeFace ==
  0 :> 1 @@ 1 :> 2 @@ 2 :> 1 @@ 3 :> 2 @@ 4 :> 0 @@ 5 :> 1 @@ 6 :> 1 @@
  7 :> 2 @@ 8 :> 0 @@ 9 :> 2 @@ 12 :> 3 @@ 14 :> 11 @@ 15 :> 4 @@ 16 :> 0 @@
  19 :> 2 @@ 20 :> 7 @@ 22 :> 0

\* baseCellData[baseCell].cwOffsetPent of the pentagons 4 and 14
cwOffsetPent == 4 :> <<-1, -1>> @@ 14 :> <<2, 6>>

_baseCellIsCwOffset(baseCell, testFace) ==
  cwOffsetPent[baseCell][1] = testFace \/ cwOffsetPent[baseCell][2] = testFace

\* the base cells whose table rows the model holds
TableRows == DOMAIN baseCellNeighbors

(***************************************************************************)
(* algos.c: h3NeighborRotations.  A call is modelled by its effect on the  *)
(* two locations it writes, *rotations and *out, and its return value; the *)
(* fields newRotations and increments record the local newRotations and    *)
(* the sum of the increments the call applied to *rotations, and level the *)
(* level at which the walk stopped (0: at the base cell).                  *)
(***************************************************************************)
\* line 130 with the test dir <= CENTER_DIGIT
DirectionAccepted_NotCenter(dir) ==
  ~(dir <= CENTER_DIGIT \/ dir >= INVALID_DIGIT)

\* line 130: the directions the function accepts
DirectionAccepted(dir) == ~(dir < CENTER_DIGIT \/ dir >= INVALID_DIGIT)

\* line 135: *rotations = *rotations % 6
ReduceRotations(rotations) == CRem(rotations, 6)

RECURSIVE RotateDirection_OneShort(_, _)
\* lines 136-138 with the loop ending one rotation early
RotateDirection_OneShort(dir, rotations) ==
  IF rotations <= 1 THEN dir
  ELSE RotateDirection_OneShort(_rotate60ccw(dir), rotations - 1)

RECURSIVE RotateDirection(_, _)
\* lines 136-138: dir rotated counter-clockwise i < rotations times
RotateDirection(dir, rotations) ==
  IF rotations <= 0 THEN dir
  ELSE RotateDirection(_rotate60ccw(dir), rotations - 1)

\* line 269 without the remainder
FinalRotations_NoRemainder(rotations, newRotations) == rotations + newRotations

\* line 269: *rotations = (*rotations + newRotations) % 6
FinalRotations(rotations, newRotations) == CRem(rotations + newRotations, 6)

\* lines 150-166 without the rotation of line 164
BaseCellStep_NoRotation(current, dir, oldBaseCell) ==
  LET moved == H3_SET_BASE_CELL(current, baseCellNeighbors[oldBaseCell][dir + 1])
  IN IF H3_GET_BASE_CELL(moved) = INVALID_BASE_CELL
     THEN [status |-> "E_SUCCESS",
           current |-> H3_SET_BASE_CELL(moved,
                         baseCellNeighbors[oldBaseCell][IK_AXES_DIGIT + 1]),
           newRotations |->
             baseCellNeighbor60CCWRots[oldBaseCell][IK_AXES_DIGIT + 1],
           increments |-> 1, level |-> 0]
     ELSE [status |-> "E_SUCCESS", current |-> moved,
           newRotations |-> baseCellNeighbor60CCWRots[oldBaseCell][dir + 1],
           increments |-> 0, level |-> 0]

\* lines 151-169: the carry reached the base-cell level
BaseCellStep(current, dir, oldBaseCell) ==
  LET moved == H3_SET_BASE_CELL(current, baseCellNeighbors[oldBaseCell][dir + 1])
  IN IF H3_GET_BASE_CELL(moved) = INVALID_BASE_CELL
     THEN [status |-> "E_SUCCESS",
           current |-> _h3Rotate60ccw(H3_SET_BASE_CELL(moved,
                         baseCellNeighbors[oldBaseCell][IK_AXES_DIGIT + 1])),
           newRotations |->
             baseCellNeighbor60CCWRots[oldBaseCell][IK_AXES_DIGIT + 1],
           increments |-> 1, level |-> 0]
     ELSE [status |-> "E_SUCCESS", current |-> moved,
           newRotations |-> baseCellNeighbor60CCWRots[oldBaseCell][dir + 1],
           increments |-> 0, level |-> 0]

\* lines 176-183 with NEW_DIGIT_II[CENTER][K] read as J
NewDigit_WrongEntry(res, oldDigit, dir) ==
  IF isResolutionClassIII(res) # 0
  THEN IF oldDigit = CENTER_DIGIT /\ dir = K_AXES_DIGIT THEN J_AXES_DIGIT
       ELSE NEW_DIGIT_II[oldDigit + 1][dir + 1]
  ELSE NEW_DIGIT_III[oldDigit + 1][dir + 1]

\* lines 176-183: the new digit and the carry of one level
\* lines 176-183 with the new-digit tables of the two classes exchanged
NewDigit_SwappedClass(res, oldDigit, dir) ==
  IF isResolutionClassIII(res) # 0 THEN NEW_DIGIT_III[oldDigit + 1][dir + 1]
  ELSE NEW_DIGIT_II[oldDigit + 1][dir + 1]

NewDigit(res, oldDigit, dir) ==
  IF isResolutionClassIII(res) # 0 THEN NEW_DIGIT_II[oldDigit + 1][dir + 1]
  ELSE NEW_DIGIT_III[oldDigit + 1][dir + 1]

\* lines 176-183 with the carry tables of the two classes exchanged
NewAdjustment_SwappedClass(res, oldDigit, dir) ==
  IF isResolutionClassIII(res) # 0 THEN NEW_ADJUSTMENT_III[oldDigit + 1][dir + 1]
  ELSE NEW_ADJUSTMENT_II[oldDigit + 1][dir + 1]

NewAdjustment(res, oldDigit, dir) ==
  IF isResolutionClassIII(res) # 0 THEN NEW_ADJUSTMENT_II[oldDigit + 1][dir + 1]
  ELSE NEW_ADJUSTMENT_III[oldDigit + 1][dir + 1]

RECURSIVE Walk(_, _, _, _)
\* lines 149-193: the loop that adjusts the digits from level r + 1 upward
Walk(current, dir, r, oldBaseCell) ==
  IF r = -1 THEN BaseCellStep(current, dir, oldBaseCell)
  ELSE LET oldDigit == H3_GET_INDEX_DIGIT(current, r + 1)
       IN IF oldDigit = INVALID_DIGIT
          THEN [status |-> "E_CELL_INVALID", current |-> current,
                newRotations |-> 0, increments |-> 0, level |-> r + 1]
          ELSE LET stepped == H3_SET_INDEX_DIGIT(current, r + 1,
                                NewDigit(r + 1, oldDigit, dir))
                   nextDir == NewAdjustment(r + 1, oldDigit, dir)
               IN IF nextDir # CENTER_DIGIT
                  THEN Walk(stepped, nextDir, r - 1, oldBaseCell)
                  ELSE [status |-> "E_SUCCESS", current |-> stepped,
                        newRotations |-> 0, increments |-> 0, level |-> r + 1]

RECURSIVE DigitWalk(_, _, _)
\* lines 170-191: the digits of hh adjusted from level r + 1 upward for a
\* step in direction d, without the base-cell step of lines 150-169; carried
\* tells whether the carry went past level 1, and dir is then the direction
\* it arrives with
DigitWalk(hh, d, r) ==
  IF r = -1
  THEN [carried |-> TRUE, status |-> "E_SUCCESS", current |-> hh, dir |-> d,
        level |-> 0]
  ELSE LET oldDigit == H3_GET_INDEX_DIGIT(hh, r + 1)
       IN IF oldDigit = INVALID_DIGIT
          THEN [carried |-> FALSE, status |-> "E_CELL_INVALID",
                current |-> hh, dir |-> d, level |-> r + 1]
          ELSE LET stepped == H3_SET_INDEX_DIGIT(hh, r + 1,
                                NewDigit(r + 1, oldDigit, d))
                   nextDir == NewAdjustment(r + 1, oldDigit, d)
               IN IF nextDir = CENTER_DIGIT
                  THEN [carried |-> FALSE, status |-> "E_SUCCESS",
                        current |-> stepped, dir |-> d, level |-> r + 1]
                  ELSE DigitWalk(stepped, nextDir, r - 1)

\* lines 219-240 without the case of a CENTER leading digit
SamePentagonCase_NoCenterCase(current, oldLeadingDigit) ==
  IF oldLeadingDigit = JK_AXES_DIGIT
  THEN [status |-> "E_SUCCESS", current |-> _h3Rotate60ccw(current),
        increments |-> 1, alreadyAdjustedKSubsequence |-> FALSE]
  ELSE IF oldLeadingDigit = IK_AXES_DIGIT
  THEN [status |-> "E_SUCCESS", current |-> _h3Rotate60cw(current),
        increments |-> 5, alreadyAdjustedKSubsequence |-> FALSE]
  ELSE [status |-> "E_FAILED", current |-> current, increments |-> 0,
        alreadyAdjustedKSubsequence |-> FALSE]

\* lines 219-240 without the case of an IK leading digit
SamePentagonCase_NoIKCase(current, oldLeadingDigit) ==
  IF oldLeadingDigit = CENTER_DIGIT
  THEN [status |-> "E_PENTAGON", current |-> current, increments |-> 0,
        alreadyAdjustedKSubsequence |-> FALSE]
  ELSE IF oldLeadingDigit = JK_AXES_DIGIT
  THEN [status |-> "E_SUCCESS", current |-> _h3Rotate60ccw(current),
        increments |-> 1, alreadyAdjustedKSubsequence |-> FALSE]
  ELSE [status |-> "E_FAILED", current |-> current, increments |-> 0,
        alreadyAdjustedKSubsequence |-> FALSE]

\* lines 219-240 with the turns of the JK and IK cases exchanged
SamePentagonCase_SwappedTurns(current, oldLeadingDigit) ==
  IF oldLeadingDigit = CENTER_DIGIT
  THEN [status |-> "E_PENTAGON", current |-> current, increments |-> 0,
        alreadyAdjustedKSubsequence |-> FALSE]
  ELSE IF oldLeadingDigit = JK_AXES_DIGIT
  THEN [status |-> "E_SUCCESS", current |-> _h3Rotate60cw(current),
        increments |-> 5, alreadyAdjustedKSubsequence |-> FALSE]
  ELSE IF oldLeadingDigit = IK_AXES_DIGIT
  THEN [status |-> "E_SUCCESS", current |-> _h3Rotate60ccw(current),
        increments |-> 1, alreadyAdjustedKSubsequence |-> FALSE]
  ELSE [status |-> "E_FAILED", current |-> current, increments |-> 0,
        alreadyAdjustedKSubsequence |-> FALSE]

\* lines 219-240: the walk ended in the deleted k sub-sequence of the pentagon
\* base cell it started in
SamePentagonCase(current, oldLeadingDigit) ==
  IF oldLeadingDigit = CENTER_DIGIT
  THEN [status |-> "E_PENTAGON", current |-> current, increments |-> 0,
        alreadyAdjustedKSubsequence |-> FALSE]
  ELSE IF oldLeadingDigit = JK_AXES_DIGIT
  THEN [status |-> "E_SUCCESS", current |-> _h3Rotate60ccw(current),
        increments |-> 1, alreadyAdjustedKSubsequence |-> FALSE]
  ELSE IF oldLeadingDigit = IK_AXES_DIGIT
  THEN [status |-> "E_SUCCESS", current |-> _h3Rotate60cw(current),
        increments |-> 5, alreadyAdjustedKSubsequence |-> FALSE]
  ELSE [status |-> "E_FAILED", current |-> current, increments |-> 0,
        alreadyAdjustedKSubsequence |-> FALSE]

\* lines 200-242: rotation out of the deleted k-axes sub-sequence
KSubsequence(current, oldBaseCell, newBaseCell, oldLeadingDigit) ==
  IF _h3LeadingNonZeroDigit(current) # K_AXES_DIGIT
  THEN [status |-> "E_SUCCESS", current |-> current, increments |-> 0,
        alreadyAdjustedKSubsequence |-> FALSE]
  ELSE IF oldBaseCell # newBaseCell
  THEN [status |-> "E_SUCCESS",
        current |-> IF _baseCellIsCwOffset(newBaseCell,
                                           baseCellHomeFace[oldBaseCell])
                    THEN _h3Rotate60cw(current) ELSE _h3Rotate60ccw(current),
        increments |-> 0, alreadyAdjustedKSubsequence |-> TRUE]
  ELSE SamePentagonCase(current, oldLeadingDigit)

RECURSIVE RotatePentTimes_Plain(_, _)
\* lines 244-245 with _h3Rotate60ccw in the place of _h3RotatePent60ccw
RotatePentTimes_Plain(current, n) ==
  IF n <= 0 THEN current ELSE RotatePentTimes_Plain(_h3Rotate60ccw(current), n - 1)

RECURSIVE RotatePentTimes(_, _)
\* lines 244-245: newRotations applications of _h3RotatePent60ccw
RotatePentTimes(current, n) ==
  IF n <= 0 THEN current ELSE RotatePentTimes(_h3RotatePent60ccw(current), n - 1)

RECURSIVE RotateTimes_OneMore(_, _)
\* lines 265-266 with the test i <= newRotations
RotateTimes_OneMore(current, n) ==
  IF n < 0 THEN current
  ELSE RotateTimes_OneMore(_h3Rotate60ccw(current), n - 1)

RECURSIVE RotateTimes(_, _)
\* lines 265-266: newRotations applications of _h3Rotate60ccw
RotateTimes(current, n) ==
  IF n <= 0 THEN current ELSE RotateTimes(_h3Rotate60ccw(current), n - 1)

\* lines 249-263: the increment for the differing orientation of base cells
OrientationIncrement(current, oldBaseCell, newBaseCell, alreadyAdjusted) ==
  IF oldBaseCell = newBaseCell THEN 0
  ELSE IF _isBaseCellPolarPentagon(newBaseCell)
  THEN IF oldBaseCell # 118 /\ oldBaseCell # 8
          /\ _h3LeadingNonZeroDigit(current) # JK_AXES_DIGIT
       THEN 1 ELSE 0
  ELSE IF _h3LeadingNonZeroDigit(current) = IK_AXES_DIGIT /\ ~alreadyAdjusted
  THEN 1 ELSE 0

\* lines 195-272: what follows the walk
AfterWalk(walked, rotations, oldBaseCell, oldLeadingDigit, out) ==
  LET newBaseCell == H3_GET_BASE_CELL(walked.current)
      rot1 == rotations + walked.increments
  IN IF _isBaseCellPentagon(newBaseCell)
     THEN LET k == KSubsequence(walked.current, oldBaseCell, newBaseCell,
                                oldLeadingDigit)
          IN IF k.status # "E_SUCCESS"
             THEN [status |-> k.status, rotations |-> rot1, out |-> out,
                   newRotations |-> walked.newRotations,
                   increments |-> walked.increments, level |-> walked.level]
             ELSE LET current == RotatePentTimes(k.current, walked.newRotations)
                      inc == k.increments
                             + OrientationIncrement(current, oldBaseCell,
                                 newBaseCell, k.alreadyAdjustedKSubsequence)
                  IN [status |-> "E_SUCCESS",
                      rotations |-> FinalRotations(rot1 + inc,
                                                   walked.newRotations),
                      out |-> current,
                      newRotations |-> walked.newRotations,
                      increments |-> walked.increments + inc,
                      level |-> walked.level]
     ELSE [status |-> "E_SUCCESS",
           rotations |-> FinalRotations(rot1, walked.newRotations),
           out |-> RotateTimes(walked.current, walked.newRotations),
           newRotations |-> walked.newRotations,
           increments |-> walked.increments, level |-> walked.level]

\* lines 126-273; rotations and out are the contents of *rotations and *out
\* before the call
h3NeighborRotations(origin, dir, rotations, out) ==
  IF ~DirectionAccepted(dir)
  THEN [status |-> "E_FAILED", rotations |-> rotations, out |-> out,
        newRotations |-> 0, increments |-> 0, level |-> -1]
  ELSE LET reduced == ReduceRotations(rotations)
           oldBaseCell == H3_GET_BASE_CELL(origin)
       IN IF oldBaseCell >= NUM_BASE_CELLS
          THEN [status |-> "E_CELL_INVALID", rotations |-> reduced,
                out |-> out, newRotations |-> 0, increments |-> 0,
                level |-> -1]
          ELSE LET walked == Walk(origin, RotateDirection(dir, reduced),
                                  H3_GET_RESOLUTION(origin) - 1, oldBaseCell)
               IN IF walked.status # "E_SUCCESS"
                  THEN [status |-> walked.status, rotations |-> reduced,
                        out |-> out, newRotations |-> 0, increments |-> 0,
                        level |-> walked.level]
                  ELSE AfterWalk(walked, reduced, oldBaseCell,
                                 _h3LeadingNonZeroDigit(origin), out)

\* lines 150-169 for tables that hold, for the old base cell, the entries
\* t.entry and t.rots in the column of dir and t.ikEntry and t.ikRots in the
\* column of IK_AXES_DIGIT
BaseCellStepWith(current, t) ==
  LET moved == H3_SET_BASE_CELL(current, t.entry)
  IN IF H3_GET_BASE_CELL(moved) = INVALID_BASE_CELL
     THEN [status |-> "E_SUCCESS",
           current |-> _h3Rotate60ccw(H3_SET_BASE_CELL(moved, t.ikEntry)),
           newRotations |-> t.ikRots, increments |-> 1, level |-> 0]
     ELSE [status |-> "E_SUCCESS", current |-> moved,
           newRotations |-> t.rots, increments |-> 0, level |-> 0]

\* lines 149-193 for such tables
WalkWith(current, dir, r, t) ==
  LET w == DigitWalk(current, dir, r)
  IN IF w.carried THEN BaseCellStepWith(w.current, t)
     ELSE [status |-> w.status,
           current |-> IF w.status = "E_SUCCESS" THEN w.current ELSE current,
           newRotations |-> 0, increments |-> 0, level |-> w.level]

\* lines 126-273 for such tables
h3NeighborRotationsWith(origin, dir, rotations, out, t) ==
  IF ~DirectionAccepted(dir)
  THEN [status |-> "E_FAILED", rotations |-> rotations, out |-> out,
        newRotations |-> 0, increments |-> 0, level |-> -1]
  ELSE LET reduced == ReduceRotations(rotations)
           oldBaseCell == H3_GET_BASE_CELL(origin)
       IN IF oldBaseCell >= NUM_BASE_CELLS
          THEN [status |-> "E_CELL_INVALID", rotations |-> reduced,
                out |-> out, newRotations |-> 0, increments |-> 0,
                level |-> -1]
          ELSE LET walked == WalkWith(origin, RotateDirection(dir, reduced),
                                      H3_GET_RESOLUTION(origin) - 1, t)
               IN IF walked.status # "E_SUCCESS"
                  THEN [status |-> walked.status, rotations |-> reduced,
                        out |-> out, newRotations |-> 0, increments |-> 0,
                        level |-> walked.level]
                  ELSE AfterWalk(walked, reduced, oldBaseCell,
                                 _h3LeadingNonZeroDigit(origin), out)

(***************************************************************************)
(* h3Index.c: _zeroIndexDigits works on the 64-bit word.  A word is a      *)
(* function from the bit positions 0..63 to 0..1; ToWord and FromWord      *)
(* place the fields of an index at the offsets of the index layout.        *)
(***************************************************************************)
H3_PER_DIGIT_OFFSET == 3
H3_BC_OFFSET == 45
H3_RES_OFFSET == 52
H3_MODE_OFFSET == 59
H3_WORD_BITS == 64

WordBits == 0..(H3_WORD_BITS - 1)

\* bit k of the number n
BitOf(n, k) == (n \div (2 ^ k)) % 2

RECURSIVE FieldOf(_, _, _)
\* the number held by the `width` bits of w from bit `offset` upward
FieldOf(w, offset, width) ==
  IF width = 0 THEN 0
  ELSE w[offset] + 2 * FieldOf(w, offset + 1, width - 1)

ToWord(hh) ==
  [i \in WordBits |->
     IF i < H3_BC_OFFSET
     THEN BitOf(hh.digits[MAX_H3_RES - (i \div H3_PER_DIGIT_OFFSET)],
                i % H3_PER_DIGIT_OFFSET)
     ELSE IF i < H3_RES_OFFSET THEN BitOf(hh.bc, i - H3_BC_OFFSET)
     ELSE IF i < H3_RES_OFFSET + 4 THEN BitOf(hh.res, i - H3_RES_OFFSET)
     ELSE IF i < H3_MODE_OFFSET THEN 0
     ELSE IF i < H3_MODE_OFFSET + 4 THEN BitOf(hh.mode, i - H3_MODE_OFFSET)
     ELSE 0]

FromWord(w) ==
  [mode |-> FieldOf(w, H3_MODE_OFFSET, 4),
   res |-> FieldOf(w, H3_RES_OFFSET, 4),
   bc |-> FieldOf(w, H3_BC_OFFSET, 7),
   digits |-> [r \in 1..MAX_H3_RES |->
                 FieldOf(w, (MAX_H3_RES - r) * H3_PER_DIGIT_OFFSET,
                         H3_PER_DIGIT_OFFSET)]]

\* ~w, w << k (0 <= k < 64) and a & b on words
WordNot(w) == [i \in WordBits |-> 1 - w[i]]
WordShl(w, k) == [i \in WordBits |-> IF i >= k THEN w[i - k] ELSE 0]
WordAnd(a, b) == [i \in WordBits |-> a[i] * b[i]]

\* lines 45-51 with the first shift one digit short
ZeroMask_OneDigitShort(start, end) ==
  LET m0 == [i \in WordBits |-> 0]
      m1 == WordNot(m0)
      m2 == WordShl(m1, H3_PER_DIGIT_OFFSET * (end - start))
      m3 == WordNot(m2)
      m4 == WordShl(m3, H3_PER_DIGIT_OFFSET * (MAX_H3_RES - end))
  IN WordNot(m4)

\* lines 45-51: the mask m
ZeroMask(start, end) ==
  LET m0 == [i \in WordBits |-> 0]
      m1 == WordNot(m0)
      m2 == WordShl(m1, H3_PER_DIGIT_OFFSET * (end - start + 1))
      m3 == WordNot(m2)
      m4 == WordShl(m3, H3_PER_DIGIT_OFFSET * (MAX_H3_RES - end))
  IN WordNot(m4)

\* lines 42-54
_zeroIndexDigits(hh, start, end) ==
  IF start > end THEN hh
  ELSE FromWord(WordAnd(ToWord(hh), ZeroMask(start, end)))

(***************************************************************************)
(* algos.c: _getEdgeHexagons.  The found and search blocks are arrays      *)
(* indexed from 0; a cell is a non-zero number, 0 an empty slot.           *)
(***************************************************************************)
RECURSIVE ProbeLoop_NoBreak(_, _, _, _, _)
\* lines 323-333 without the break on found[loc] == pointHex
ProbeLoop_NoBreak(found, pointHex, loc, loopCount, numHexagons) ==
  IF found[loc] = 0
  THEN [failed |-> FALSE, loc |-> loc, loopCount |-> loopCount]
  ELSE IF loopCount > numHexagons
  THEN [failed |-> TRUE, loc |-> loc, loopCount |-> loopCount]
  ELSE ProbeLoop_NoBreak(found, pointHex, (loc + 1) % numHexagons,
                         loopCount + 1, numHexagons)

RECURSIVE ProbeLoop(_, _, _, _, _)
\* lines 323-333: the loop while (found[loc] != 0)
ProbeLoop(found, pointHex, loc, loopCount, numHexagons) ==
  IF found[loc] = 0
  THEN [failed |-> FALSE, loc |-> loc, loopCount |-> loopCount]
  ELSE IF loopCount > numHexagons
  THEN [failed |-> TRUE, loc |-> loc, loopCount |-> loopCount]
  ELSE IF found[loc] = pointHex
  THEN [failed |-> FALSE, loc |-> loc, loopCount |-> loopCount]
  ELSE ProbeLoop(found, pointHex, (loc + 1) % numHexagons, loopCount + 1,
                 numHexagons)

\* lines 334-340 without the continue on found[loc] == pointHex
StorePoint_NoSkip(found, search, numSearchHexes, numHexagons, pointHex, loc) ==
  [found |-> [found EXCEPT ![loc] = pointHex],
   search |-> IF numSearchHexes < numHexagons
              THEN [search EXCEPT ![numSearchHexes] = pointHex]
              ELSE search,
   numSearchHexes |-> numSearchHexes + 1,
   overflow |-> numSearchHexes >= numHexagons]

\* lines 334-340: what follows the loop, for the slot loc it ended at; a
\* write to search beyond its numHexagons entries is recorded in overflow
StorePoint(found, search, numSearchHexes, numHexagons, pointHex, loc) ==
  IF found[loc] = pointHex
  THEN [found |-> found, search |-> search,
        numSearchHexes |-> numSearchHexes, overflow |-> FALSE]
  ELSE [found |-> [found EXCEPT ![loc] = pointHex],
        search |-> IF numSearchHexes < numHexagons
                   THEN [search EXCEPT ![numSearchHexes] = pointHex]
                   ELSE search,
        numSearchHexes |-> numSearchHexes + 1,
        overflow |-> numSearchHexes >= numHexagons]

\* lines 321-340 with the cell stored at the slot where the probe gave up
TracePoint_StoresOnFailure(found, search, numSearchHexes, numHexagons, pointHex) ==
  LET probe == ProbeLoop(found, pointHex, pointHex % numHexagons, 0,
                         numHexagons)
  IN IF probe.failed
     THEN [err |-> "E_FAILED",
           found |-> [found EXCEPT ![probe.loc] = pointHex],
           search |-> search,
           numSearchHexes |-> numSearchHexes, overflow |-> FALSE,
           loopCount |-> probe.loopCount]
     ELSE LET stored == StorePoint(found, search, numSearchHexes, numHexagons,
                                   pointHex, probe.loc)
          IN [err |-> "E_SUCCESS", found |-> stored.found,
              search |-> stored.search,
              numSearchHexes |-> stored.numSearchHexes,
              overflow |-> stored.overflow, loopCount |-> probe.loopCount]

\* lines 321-340: one interpolated point that indexed to pointHex
TracePoint(found, search, numSearchHexes, numHexagons, pointHex) ==
  LET probe == ProbeLoop(found, pointHex, pointHex % numHexagons, 0,
                         numHexagons)
  IN IF probe.failed
     THEN [err |-> "E_FAILED", found |-> found, search |-> search,
           numSearchHexes |-> numSearchHexes, overflow |-> FALSE,
           loopCount |-> probe.loopCount]
     ELSE LET stored == StorePoint(found, search, numSearchHexes, numHexagons,
                                   pointHex, probe.loc)
          IN [err |-> "E_SUCCESS", found |-> stored.found,
              search |-> stored.search,
              numSearchHexes |-> stored.numSearchHexes,
              overflow |-> stored.overflow, loopCount |-> probe.loopCount]

(***************************************************************************)
(* State.  The functions above are driven by callers:                      *)
(*  - Spec: one call of h3NeighborRotations from an origin, then either    *)
(*    the call back from the neighbor in the opposite direction with the   *)
(*    rotation count passed on, or the same call on the rotated origin;    *)
(*  - SpecRotate: _h3Rotate60ccw and _h3Rotate60cw applied in turn;        *)
(*  - SpecZero: one call of _zeroIndexDigits;                              *)
(*  - SpecEdge: calls of _getEdgeHexagons on the same found and search     *)
(*    blocks, each call advancing edge by edge and point by point.         *)
(***************************************************************************)
VARIABLES
  origin,            \* the index passed in
  pc,                \* position of the caller
  dir,               \* h3NeighborRotations: dir
  rotations,         \* h3NeighborRotations: *rotations before the first call
  first,             \* outcome of the first call
  back,              \* outcome of the call back
  turned,            \* outcome of the call on the rotated origin
  cell,              \* the index being rotated
  ccwTurns,          \* number of _h3Rotate60ccw applied to it
  cwTurns,           \* number of _h3Rotate60cw applied to it
  start,             \* _zeroIndexDigits: start
  end,               \* _zeroIndexDigits: end
  zeroed,            \* _zeroIndexDigits: the index returned
  numHexagons,       \* _getEdgeHexagons: numHexagons
  found,             \* the found block
  search,            \* the search block
  numSearchHexes,    \* *numSearchHexes
  overflow,          \* a write beyond the search block has happened
  numVerts,          \* geoloop->numVerts of the running call
  i,                 \* edge index of the running call
  numHexesEstimate,  \* estimate of the running edge
  j,                 \* point index on the running edge
  err,               \* what the last call of _getEdgeHexagons returned
  last,              \* the last point traced: cell, found before, outcome
  committed,         \* found, search, count when the running edge began
  fn,                \* linkedGeo.c: the counting function called
  chainNext,         \* the next field of each node of the heap
  head,              \* the chain the function walks: its first node
  cursor,            \* the local polygon, loop or coord
  count,             \* the local count, then the value returned
  estRes,            \* lineHexEstimate: res
  ptA,               \* lineHexEstimate: origin
  ptB,               \* lineHexEstimate: destination
  pentagonRadiusKm,  \* _hexRadiusKm(pentagons[0])
  estimate,          \* lineHexEstimate: what the call returned, and *out
  p1,                \* geoAlmostEqualThreshold: p1
  p2,                \* geoAlmostEqualThreshold: p2
  threshold,         \* geoAlmostEqualThreshold: threshold
  almost             \* results of the call and of the call with p1, p2 swapped

nvars == <<dir, rotations, first, back, turned>>
rvars == <<cell, ccwTurns, cwTurns>>
zvars == <<start, end, zeroed>>
evars == <<numHexagons, found, search, numSearchHexes, overflow, numVerts, i,
           numHexesEstimate, j, err, last, committed>>
lvars == <<fn, chainNext, head, cursor, count>>
gvars == <<estRes, ptA, ptB, pentagonRadiusKm, estimate, p1, p2, threshold,
           almost>>
vars == <<origin, pc, nvars, rvars, zvars, evars, lvars, gvars>>

\* H3_NULL, the content of an out variable before a call writes it
H3_NULL ==
  [mode |-> 0, res |-> 0, bc |-> 0,
   digits |-> [r \in 1..MAX_H3_RES |-> CENTER_DIGIT]]

NoCall ==
  [status |-> "none", rotations |-> 0, out |-> H3_NULL,
   newRotations |-> 0, increments |-> 0, level |-> -1]

NoPoint == [cell |-> 0, before |-> <<>>, err |-> "none", loopCount |-> 0]

\* the blocks and the count as a record
Blocks(f, s, n) == [found |-> f, search |-> s, numSearchHexes |-> n]

NoEstimate == [status |-> "none", out |-> 0]

NoAnswer == [direct |-> FALSE, swapped |-> FALSE]

\* base cells of the origins: the hexagons 0, 8, 9, the polar pentagon 4,
\* the pentagon 14, and the base cell number 127, which no index of the grid
\* has
OriginBaseCells == {0, 4, 8, 9, 14, INVALID_BASE_CELL}

\* the values the digit slots beyond the resolution may hold
UnusedDigits == {CENTER_DIGIT, INVALID_DIGIT}

\* every index of resolution 0..MaxRes over the origin base cells, its digit
\* slots 1..res holding any 3-bit value
Origins ==
  UNION {
    { [setH3Index(t[1], t[2], CENTER_DIGIT) EXCEPT
         !.digits = [r \in 1..MAX_H3_RES |->
                       IF r <= t[1] THEN ds[r] ELSE t[3]]] :
        ds \in [1..t[1] -> CENTER_DIGIT..INVALID_DIGIT] } :
    t \in (0..MaxRes) \X OriginBaseCells \X UnusedDigits }

DirInputs == (-1)..MaxDir

RotInputs == {-MaxRot, -1} \cup (0..MaxRot)

\* the direction opposite to d
Opposite(d) ==
  CASE d = K_AXES_DIGIT -> IJ_AXES_DIGIT
    [] d = IJ_AXES_DIGIT -> K_AXES_DIGIT
    [] d = J_AXES_DIGIT -> IK_AXES_DIGIT
    [] d = IK_AXES_DIGIT -> J_AXES_DIGIT
    [] d = JK_AXES_DIGIT -> I_AXES_DIGIT
    [] d = I_AXES_DIGIT -> JK_AXES_DIGIT
    [] OTHER -> d

NeighborIdle ==
  /\ dir = CENTER_DIGIT
  /\ rotations = 0
  /\ first = NoCall
  /\ back = NoCall
  /\ turned = NoCall

RotateIdle == cell = H3_NULL /\ ccwTurns = 0 /\ cwTurns = 0

ZeroIdle == start = 1 /\ end = 1 /\ zeroed = H3_NULL

EdgeIdle ==
  /\ numHexagons = 1
  /\ found = <<>>
  /\ search = <<>>
  /\ numSearchHexes = 0
  /\ overflow = FALSE
  /\ numVerts = 0
  /\ i = 0
  /\ numHexesEstimate = 0
  /\ j = 0
  /\ err = "none"
  /\ last = NoPoint
  /\ committed = Blocks(<<>>, <<>>, 0)

LinkedIdle ==
  /\ fn = "none"
  /\ chainNext = <<>>
  /\ head = 0
  /\ cursor = 0
  /\ count = 0

GeoIdle ==
  /\ estRes = 0
  /\ ptA = 0
  /\ ptB = 0
  /\ pentagonRadiusKm = 1
  /\ estimate = NoEstimate
  /\ p1 = [lat |-> 0, lng |-> 0]
  /\ p2 = [lat |-> 0, lng |-> 0]
  /\ threshold = 0
  /\ almost = NoAnswer

(***************************************************************************)
(* Spec: the neighbor walk.                                                *)
(***************************************************************************)
Init ==
  /\ origin \in Origins
  /\ dir \in DirInputs
  /\ rotations \in RotInputs
  /\ pc = "start"
  /\ first = NoCall
  /\ back = NoCall
  /\ turned = NoCall
  /\ RotateIdle
  /\ ZeroIdle
  /\ EdgeIdle
  /\ LinkedIdle
  /\ GeoIdle

\* err = h3NeighborRotations(origin, dir, &rotations, &out)
Step ==
  /\ pc = "start"
  /\ first' = h3NeighborRotations(origin, dir, rotations, H3_NULL)
  /\ pc' = "stepped"
  /\ UNCHANGED <<origin, dir, rotations, back, turned, rvars, zvars, evars, lvars, gvars>>

\* the call back from the neighbor, in the opposite direction, the rotation
\* count of the first call passed on
StepBack ==
  /\ pc = "stepped"
  /\ first.status = "E_SUCCESS"
  /\ dir \in K_AXES_DIGIT..IJ_AXES_DIGIT
  /\ rotations = 0
  /\ H3_GET_BASE_CELL(first.out) \in TableRows
  /\ back' = h3NeighborRotations(first.out, Opposite(dir), first.rotations,
                                 H3_NULL)
  /\ pc' = "returned"
  /\ UNCHANGED <<origin, dir, rotations, first, turned, rvars, zvars, evars, lvars, gvars>>

\* the same call on the origin and the direction rotated 60 degrees ccw
StepRotated ==
  /\ pc = "stepped"
  /\ dir \in K_AXES_DIGIT..IJ_AXES_DIGIT
  /\ rotations = 0
  /\ turned' = h3NeighborRotations(_h3Rotate60ccw(origin), _rotate60ccw(dir),
                                   rotations, H3_NULL)
  /\ pc' = "turned"
  /\ UNCHANGED <<origin, dir, rotations, first, back, rvars, zvars, evars, lvars, gvars>>

Next == Step \/ StepBack \/ StepRotated

Spec == Init /\ [][Next]_vars

(***************************************************************************)
(* SpecRotate: whole-index rotations.                                      *)
(***************************************************************************)
\* number of rotations of either sense applied to one index
MaxTurns == 6

InitRotate ==
  /\ origin \in Origins
  /\ cell = origin
  /\ ccwTurns = 0
  /\ cwTurns = 0
  /\ pc = "rotate"
  /\ NeighborIdle
  /\ ZeroIdle
  /\ EdgeIdle
  /\ LinkedIdle
  /\ GeoIdle

\* cell = _h3Rotate60ccw(cell)
Rotate60ccw ==
  /\ pc = "rotate"
  /\ ccwTurns < MaxTurns
  /\ cell' = _h3Rotate60ccw(cell)
  /\ ccwTurns' = ccwTurns + 1
  /\ UNCHANGED <<origin, pc, cwTurns, nvars, zvars, evars, lvars, gvars>>

\* cell = _h3Rotate60cw(cell)
Rotate60cw ==
  /\ pc = "rotate"
  /\ cwTurns < MaxTurns
  /\ cell' = _h3Rotate60cw(cell)
  /\ cwTurns' = cwTurns + 1
  /\ UNCHANGED <<origin, pc, ccwTurns, nvars, zvars, evars, lvars, gvars>>

NextRotate == Rotate60ccw \/ Rotate60cw

SpecRotate == InitRotate /\ [][NextRotate]_vars

(***************************************************************************)
(* Rotations about a pentagonal center: one call of _h3RotatePent60ccw or  *)
(* of _h3RotatePent60cw on an index.                                       *)
(***************************************************************************)
InitPent ==
  /\ origin \in Origins
  /\ cell = origin
  /\ ccwTurns = 0
  /\ cwTurns = 0
  /\ pc = "pent"
  /\ NeighborIdle
  /\ ZeroIdle
  /\ EdgeIdle
  /\ LinkedIdle
  /\ GeoIdle

\* cell = _h3RotatePent60ccw(origin)
RotatePent60ccw ==
  /\ pc = "pent"
  /\ cell' = _h3RotatePent60ccw(origin)
  /\ pc' = "pentccw"
  /\ UNCHANGED <<origin, ccwTurns, cwTurns, nvars, zvars, evars, lvars,
                 gvars>>

\* cell = _h3RotatePent60cw(origin)
RotatePent60cw ==
  /\ pc = "pent"
  /\ cell' = _h3RotatePent60cw(origin)
  /\ pc' = "pentcw"
  /\ UNCHANGED <<origin, ccwTurns, cwTurns, nvars, zvars, evars, lvars,
                 gvars>>

NextPent == RotatePent60ccw \/ RotatePent60cw

SpecPent == InitPent /\ [][NextPent]_vars

(***************************************************************************)
(* SpecPentTurns: _h3RotatePent60ccw and _h3RotatePent60cw applied in turn *)
(* to one index.                                                           *)
(***************************************************************************)
\* number of rotations of either sense about a pentagonal center
MaxPentTurns == 5

InitPentTurns ==
  /\ origin \in Origins
  /\ cell = origin
  /\ ccwTurns = 0
  /\ cwTurns = 0
  /\ pc = "pentturn"
  /\ NeighborIdle
  /\ ZeroIdle
  /\ EdgeIdle
  /\ LinkedIdle
  /\ GeoIdle

\* cell = _h3RotatePent60ccw(cell)
TurnPent60ccw ==
  /\ pc = "pentturn"
  /\ ccwTurns < MaxPentTurns
  /\ cell' = _h3RotatePent60ccw(cell)
  /\ ccwTurns' = ccwTurns + 1
  /\ UNCHANGED <<origin, pc, cwTurns, nvars, zvars, evars, lvars, gvars>>

\* cell = _h3RotatePent60cw(cell)
TurnPent60cw ==
  /\ pc = "pentturn"
  /\ cwTurns < MaxPentTurns
  /\ cell' = _h3RotatePent60cw(cell)
  /\ cwTurns' = cwTurns + 1
  /\ UNCHANGED <<origin, pc, ccwTurns, nvars, zvars, evars, lvars, gvars>>

NextPentTurns == TurnPent60ccw \/ TurnPent60cw

SpecPentTurns == InitPentTurns /\ [][NextPentTurns]_vars

(***************************************************************************)
(* SpecTables: h3NeighborRotations over any contents of baseCellNeighbors  *)
(* and baseCellNeighbor60CCWRots.  A call reads at most two entries of     *)
(* each table, those of the old base cell in the column of the direction   *)
(* the carry arrives with and in the column of IK_AXES_DIGIT; the call is  *)
(* made once for each content of these entries.                            *)
(***************************************************************************)
\* base cells a table entry may name: a hexagon, the polar pentagon 4, the
\* pentagon 14
EntryBaseCells == {0, 4, 14}

\* rotation counts a table entry may hold; -1 is what the tables hold next
\* to INVALID_BASE_CELL
EntryRotations == (-1)..5

\* the contents of the entries read: the column of the direction holds a
\* base cell, or it holds INVALID_BASE_CELL and the column of IK is read
TableContents ==
  {[entry |-> e, rots |-> n, ikEntry |-> 0, ikRots |-> 0] :
     e \in EntryBaseCells, n \in EntryRotations}
  \cup
  {[entry |-> INVALID_BASE_CELL, rots |-> -1, ikEntry |-> e, ikRots |-> n] :
     e \in EntryBaseCells, n \in EntryRotations}

\* base cells of the origins: the hexagon 9, the pentagons 4 and 14, and
\* the base cell number 127
TableOriginBaseCells == {4, 9, 14, INVALID_BASE_CELL}

\* rotation counts passed in
TableRotInputs == {-1, 0, MaxRot}

InitTables ==
  /\ origin \in {o \in Origins : H3_GET_BASE_CELL(o) \in TableOriginBaseCells}
  /\ dir \in DirInputs
  /\ rotations \in TableRotInputs
  /\ pc = "tables"
  /\ first = NoCall
  /\ back = NoCall
  /\ turned = NoCall
  /\ RotateIdle
  /\ ZeroIdle
  /\ EdgeIdle
  /\ LinkedIdle
  /\ GeoIdle

\* err = h3NeighborRotations(origin, dir, &rotations, &out) with tables of
\* some contents
StepAnyTables ==
  /\ pc = "tables"
  /\ \E t \in TableContents :
       first' = h3NeighborRotationsWith(origin, dir, rotations, H3_NULL, t)
  /\ pc' = "looked"
  /\ UNCHANGED <<origin, dir, rotations, back, turned, rvars, zvars, evars,
                 lvars, gvars>>

NextTables == StepAnyTables

SpecTables == InitTables /\ [][NextTables]_vars

(***************************************************************************)
(* SpecZero: _zeroIndexDigits.                                             *)
(***************************************************************************)
\* base cells of the indexes passed to _zeroIndexDigits
ZeroBaseCells == {9, INVALID_BASE_CELL}

InitZero ==
  /\ origin \in {o \in Origins : H3_GET_BASE_CELL(o) \in ZeroBaseCells}
  /\ start \in 1..MAX_H3_RES
  /\ end \in 1..MAX_H3_RES
  /\ zeroed = H3_NULL
  /\ pc = "zero"
  /\ NeighborIdle
  /\ RotateIdle
  /\ EdgeIdle
  /\ LinkedIdle
  /\ GeoIdle

\* zeroed = _zeroIndexDigits(origin, start, end)
ZeroDigits ==
  /\ pc = "zero"
  /\ zeroed' = _zeroIndexDigits(origin, start, end)
  /\ pc' = "zeroed"
  /\ UNCHANGED <<origin, start, end, nvars, rvars, evars, lvars, gvars>>

NextZero == ZeroDigits

SpecZero == InitZero /\ [][NextZero]_vars

(***************************************************************************)
(* SpecEdge: _getEdgeHexagons.  lineHexEstimate and latLngToCell are the   *)
(* library's; a call of either fails or yields an estimate >= 1, a cell.   *)
(***************************************************************************)
\* largest numHexagons
MaxCells == 3
\* cells are the numbers 1..MaxCellValue
MaxCellValue == 4
\* most vertices of a geoloop
MaxVerts == 2
\* largest estimate of lineHexEstimate
MaxEstimate == 2

Cells == 1..MaxCellValue

InitEdge ==
  /\ numHexagons \in 1..MaxCells
  /\ found = [loc \in 0..(numHexagons - 1) |-> 0]
  /\ search = [loc \in 0..(numHexagons - 1) |-> 0]
  /\ numSearchHexes = 0
  /\ overflow = FALSE
  /\ numVerts = 0
  /\ i = 0
  /\ numHexesEstimate = 0
  /\ j = 0
  /\ err = "none"
  /\ last = NoPoint
  /\ committed = Blocks(found, search, numSearchHexes)
  /\ pc = "idle"
  /\ origin = H3_NULL
  /\ NeighborIdle
  /\ RotateIdle
  /\ ZeroIdle
  /\ LinkedIdle
  /\ GeoIdle

\* the caller's memory and the locals of a call that has returned
Returned(e) ==
  /\ err' = e
  /\ pc' = "idle"
  /\ numVerts' = 0
  /\ i' = 0
  /\ numHexesEstimate' = 0
  /\ j' = 0

\* line 296: the call begins; a geoloop without vertices returns at once
CallGetEdgeHexagons ==
  /\ pc = "idle"
  /\ \E n \in 0..MaxVerts :
       IF n = 0 THEN Returned("E_SUCCESS")
       ELSE /\ numVerts' = n
            /\ i' = 0
            /\ pc' = "edge"
            /\ err' = "running"
            /\ UNCHANGED <<numHexesEstimate, j>>
  /\ UNCHANGED <<origin, numHexagons, found, search, numSearchHexes, overflow,
                 last, committed, nvars, rvars, zvars, lvars, gvars>>

\* lines 297-305: lineHexEstimate for edge i fails, or gives its estimate
EstimateEdge ==
  /\ pc = "edge"
  /\ \/ Returned("E_FAILED")
     \/ \E n \in 1..MaxEstimate :
          /\ numHexesEstimate' = n
          /\ j' = 0
          /\ pc' = "point"
          /\ UNCHANGED <<numVerts, i, err>>
  /\ committed' = Blocks(found, search, numSearchHexes)
  /\ UNCHANGED <<origin, numHexagons, found, search, numSearchHexes, overflow,
                 last, nvars, rvars, zvars, lvars, gvars>>

\* lines 306-341: point j of edge i: latLngToCell fails, or gives a cell that
\* is looked up in the found block and stored
TraceNextPoint ==
  /\ pc = "point"
  /\ \/ /\ Returned("E_LATLNG_DOMAIN")
        /\ UNCHANGED <<found, search, numSearchHexes, overflow, last>>
     \/ \E pointHex \in Cells :
          LET t == TracePoint(found, search, numSearchHexes, numHexagons,
                              pointHex)
          IN /\ last' = [cell |-> pointHex, before |-> found, err |-> t.err,
                         loopCount |-> t.loopCount]
             /\ found' = t.found
             /\ search' = t.search
             /\ numSearchHexes' = t.numSearchHexes
             /\ overflow' = (overflow \/ t.overflow)
             /\ IF t.err # "E_SUCCESS" THEN Returned(t.err)
                ELSE IF j + 1 < numHexesEstimate
                THEN /\ j' = j + 1
                     /\ UNCHANGED <<pc, numVerts, i, numHexesEstimate, err>>
                ELSE IF i + 1 < numVerts
                THEN /\ i' = i + 1
                     /\ pc' = "edge"
                     /\ numHexesEstimate' = 0
                     /\ j' = 0
                     /\ UNCHANGED <<numVerts, err>>
                ELSE Returned("E_SUCCESS")
  /\ UNCHANGED <<origin, numHexagons, committed, nvars, rvars, zvars, lvars,
                 gvars>>

NextEdge == CallGetEdgeHexagons \/ EstimateEdge \/ TraceNextPoint

SpecEdge == InitEdge /\ [][NextEdge]_vars

(***************************************************************************)
(* SpecLinked: linkedGeo.c, the counters of the linked chains.  The nodes  *)
(* of one kind (polygons, loops or coordinates) are the addresses          *)
(* 1..MaxNodes, chainNext their next fields.  countLinkedPolygons walks    *)
(* from its argument, countLinkedLoops from polygon->first,                *)
(* countLinkedCoords from loop->first: head is that first node.            *)
(***************************************************************************)
\* number of nodes of the heap
MaxNodes == 3

NULL == 0

Nodes == 1..MaxNodes

CountFunctions ==
  {"countLinkedPolygons", "countLinkedLoops", "countLinkedCoords"}

RECURSIVE ChainNodes(_, _, _)
\* number of nodes from node p to the end of its chain, -1 if more than k
ChainNodes(nxt, p, k) ==
  IF p = NULL THEN 0
  ELSE IF k = 0 THEN -1
  ELSE LET rest == ChainNodes(nxt, nxt[p], k - 1)
       IN IF rest = -1 THEN -1 ELSE rest + 1

\* the loop condition with the test made on the next field
AtEnd_OfLastNode(p) == p = NULL \/ chainNext[p] = NULL

\* lines 30, 45, 60: the loop condition is false
AtEnd(p) == p = NULL

\* every finite chain without a cycle over the heap, and a function to call
InitLinked ==
  /\ fn \in CountFunctions
  /\ chainNext \in [Nodes -> {NULL} \cup Nodes]
  /\ head \in {NULL} \cup Nodes
  /\ ChainNodes(chainNext, head, MaxNodes) # -1
  /\ cursor = NULL
  /\ count = 0
  /\ pc = "linked"
  /\ origin = H3_NULL
  /\ NeighborIdle
  /\ RotateIdle
  /\ ZeroIdle
  /\ EdgeIdle
  /\ GeoIdle

\* lines 29, 43-44, 58-59: the locals
CallCount ==
  /\ pc = "linked"
  /\ cursor' = head
  /\ count' = 0
  /\ pc' = "counting"
  /\ UNCHANGED <<origin, fn, chainNext, head, nvars, rvars, zvars, evars,
                 gvars>>

\* lines 31-32, 46-47, 61-62: the loop body
CountNode ==
  /\ pc = "counting"
  /\ ~AtEnd(cursor)
  /\ count' = count + 1
  /\ cursor' = chainNext[cursor]
  /\ UNCHANGED <<origin, pc, fn, chainNext, head, nvars, rvars, zvars, evars,
                 gvars>>

\* lines 34, 49, 64: return count
ReturnCount ==
  /\ pc = "counting"
  /\ AtEnd(cursor)
  /\ pc' = "counted"
  /\ UNCHANGED <<origin, lvars, nvars, rvars, zvars, evars, gvars>>

NextLinked == CallCount \/ CountNode \/ ReturnCount

\* a call that has begun runs on
SpecLinked == InitLinked /\ [][NextLinked]_vars /\ WF_vars(NextLinked)

(***************************************************************************)
(* SpecEstimate: bbox.c, lineHexEstimate.  A double is modelled by its     *)
(* class and, when finite, by a whole number of kilometres; a point by its *)
(* position along one great circle, one kilometre to the unit.             *)
(***************************************************************************)
\* positions of the points along the circle: 0..MaxPoint
MaxPoint == 4
\* the radius of the pentagon: 1..MaxRadiusKm
MaxRadiusKm == 2

Finite(n) == [class |-> "finite", val |-> n]
NaN == [class |-> "nan", val |-> 0]
Infinity == [class |-> "inf", val |-> 0]

\* a point with finite coordinates, or one with a NaN coordinate
Points == {Finite(n) : n \in 0..MaxPoint} \cup {NaN}

Abs(n) == IF n < 0 THEN -n ELSE n

\* the distance of two points: 0 from a point to itself, NaN if a coordinate
\* is NaN
greatCircleDistanceKm(a, b) ==
  IF a.class # "finite" \/ b.class # "finite" THEN NaN
  ELSE Finite(Abs(a.val - b.val))

\* getPentagons(res, pentagons): its error code
getPentagons(r) ==
  IF r < 0 \/ r > MAX_H3_RES THEN "E_RES_DOMAIN" ELSE "E_SUCCESS"

\* x / y on doubles x, y >= 0, as the pair of numerator and denominator
DoubleQuotient(x, y) ==
  IF x.class = "nan" \/ y.class = "nan" THEN [class |-> "nan", num |-> 0, den |-> 1]
  ELSE IF x.class = "inf" /\ y.class = "inf" THEN [class |-> "nan", num |-> 0, den |-> 1]
  ELSE IF x.class = "inf" THEN [class |-> "inf", num |-> 0, den |-> 1]
  ELSE IF y.class = "inf" THEN [class |-> "finite", num |-> 0, den |-> 1]
  ELSE IF y.val = 0
  THEN IF x.val = 0 THEN [class |-> "nan", num |-> 0, den |-> 1]
       ELSE [class |-> "inf", num |-> 0, den |-> 1]
  ELSE [class |-> "finite", num |-> x.val, den |-> y.val]

\* 2 * x on a double
Twice(x) == IF x.class = "finite" THEN Finite(2 * x.val) ELSE x

\* ceil(q)
ceil(q) ==
  IF q.class = "finite" THEN Finite((q.num + q.den - 1) \div q.den)
  ELSE [class |-> q.class, val |-> 0]

isfinite(x) == x.class = "finite"

\* lineHexEstimate without the line that raises an estimate of 0 to 1
lineHexEstimate_NoMinimum(a, b, r, radiusKm, out) ==
  IF getPentagons(r) # "E_SUCCESS"
  THEN [status |-> getPentagons(r), out |-> out]
  ELSE LET dist == greatCircleDistanceKm(a, b)
           distCeil == ceil(DoubleQuotient(dist, Twice(radiusKm)))
       IN IF ~isfinite(distCeil) THEN [status |-> "E_FAILED", out |-> out]
          ELSE [status |-> "E_SUCCESS", out |-> distCeil.val]

\* lines 51-70, radiusKm being the value of _hexRadiusKm(pentagons[0]) and
\* out the content of *out before the call
lineHexEstimate(a, b, r, radiusKm, out) ==
  IF getPentagons(r) # "E_SUCCESS"
  THEN [status |-> getPentagons(r), out |-> out]
  ELSE LET dist == greatCircleDistanceKm(a, b)
           distCeil == ceil(DoubleQuotient(dist, Twice(radiusKm)))
       IN IF ~isfinite(distCeil) THEN [status |-> "E_FAILED", out |-> out]
          ELSE LET est == distCeil.val
               IN [status |-> "E_SUCCESS",
                   out |-> IF est = 0 THEN 1 ELSE est]

InitEstimate ==
  /\ estRes \in (-1)..(MAX_H3_RES + 1)
  /\ ptA \in Points
  /\ ptB \in Points
  /\ pentagonRadiusKm \in 1..MaxRadiusKm
  /\ estimate = NoEstimate
  /\ p1 = [lat |-> 0, lng |-> 0]
  /\ p2 = [lat |-> 0, lng |-> 0]
  /\ threshold = 0
  /\ almost = NoAnswer
  /\ pc = "estimate"
  /\ origin = H3_NULL
  /\ NeighborIdle
  /\ RotateIdle
  /\ ZeroIdle
  /\ EdgeIdle
  /\ LinkedIdle

\* err = lineHexEstimate(&ptA, &ptB, estRes, &out)
Estimate ==
  /\ pc = "estimate"
  /\ estimate' = lineHexEstimate(ptA, ptB, estRes, Finite(pentagonRadiusKm),
                                 NoEstimate.out)
  /\ pc' = "estimated"
  /\ UNCHANGED <<origin, estRes, ptA, ptB, pentagonRadiusKm, p1, p2, threshold,
                 almost, nvars, rvars, zvars, evars, lvars>>

NextEstimate == Estimate

SpecEstimate == InitEstimate /\ [][NextEstimate]_vars

(***************************************************************************)
(* SpecAlmost: latLng.c, geoAlmostEqualThreshold.  Latitudes, longitudes   *)
(* and the threshold are whole multiples of one small angle.               *)
(***************************************************************************)
\* latitudes and longitudes: 0..MaxCoord
MaxCoord == 2
\* thresholds: 0..MaxThreshold
MaxThreshold == 3

LatLngs == [lat : 0..MaxCoord, lng : 0..MaxCoord]

\* lines 36-37 with <= for <
geoAlmostEqualThreshold_Inclusive(a, b, t) ==
  Abs(a.lat - b.lat) <= t /\ Abs(a.lng - b.lng) <= t

\* lines 34-38
geoAlmostEqualThreshold(a, b, t) ==
  Abs(a.lat - b.lat) < t /\ Abs(a.lng - b.lng) < t

InitAlmost ==
  /\ p1 \in LatLngs
  /\ p2 \in LatLngs
  /\ threshold \in 0..MaxThreshold
  /\ almost = NoAnswer
  /\ estRes = 0
  /\ ptA = 0
  /\ ptB = 0
  /\ pentagonRadiusKm = 1
  /\ estimate = NoEstimate
  /\ pc = "almost"
  /\ origin = H3_NULL
  /\ NeighborIdle
  /\ RotateIdle
  /\ ZeroIdle
  /\ EdgeIdle
  /\ LinkedIdle

\* geoAlmostEqualThreshold(&p1, &p2, threshold), and the same call with the
\* two points exchanged
AlmostEqual ==
  /\ pc = "almost"
  /\ almost' = [direct |-> geoAlmostEqualThreshold(p1, p2, threshold),
                swapped |-> geoAlmostEqualThreshold(p2, p1, threshold)]
  /\ pc' = "compared"
  /\ UNCHANGED <<origin, estRes, ptA, ptB, pentagonRadiusKm, estimate, p1, p2,
                 threshold, nvars, rvars, zvars, evars, lvars>>

NextAlmost == AlmostEqual

SpecAlmost == InitAlmost /\ [][NextAlmost]_vars

(***************************************************************************)
(* Properties.                                                             *)
(***************************************************************************)
\* digits 1..res of hh are direction digits or CENTER
DigitsValid(hh) ==
  \A r \in 1..H3_GET_RESOLUTION(hh) :
    H3_GET_INDEX_DIGIT(hh, r) \in CENTER_DIGIT..IJ_AXES_DIGIT

\* hh is a cell of the grid: a base cell of the 122, valid digits, and no
\* leading K digit under a pentagon base cell
WellFormed(hh) ==
  /\ H3_GET_BASE_CELL(hh) \in 0..(NUM_BASE_CELLS - 1)
  /\ DigitsValid(hh)
  /\ _isBaseCellPentagon(H3_GET_BASE_CELL(hh))
       => _h3LeadingNonZeroDigit(hh) # K_AXES_DIGIT

\* hh is the center of a pentagon base cell
PentagonCenter(hh) ==
  /\ _isBaseCellPentagon(H3_GET_BASE_CELL(hh))
  /\ \A r \in 1..H3_GET_RESOLUTION(hh) :
       H3_GET_INDEX_DIGIT(hh, r) = CENTER_DIGIT

\* C1: from a well-formed origin, a successful step in a direction K..IJ with
\* rotation count 0, followed by the step from the neighbor in the opposite
\* direction with the returned rotation count, succeeds and gives the origin.
C1_StepAndBack ==
  (pc = "returned" /\ WellFormed(origin))
    => (back.status = "E_SUCCESS" /\ back.out = origin)

C1_Witness ==
  /\ pc = "returned"
  /\ WellFormed(origin)
  /\ H3_GET_RESOLUTION(origin) = 2
  /\ H3_GET_BASE_CELL(origin) = 4
  /\ H3_GET_BASE_CELL(first.out) # 4
  /\ first.rotations # 0
  /\ back.status = "E_SUCCESS"
  /\ back.out = origin

\* C2 as stated: from the center of a pentagon base cell, at any resolution,
\* direction K with rotation count 0 returns E_PENTAGON.
C2_PentagonCenterK_AnyRes ==
  (pc # "start" /\ PentagonCenter(origin) /\ dir = K_AXES_DIGIT
     /\ rotations = 0)
    => first.status = "E_PENTAGON"

\* C2 amended: from the center of a pentagon base cell at resolution >= 1,
\* direction K with rotation count 0 returns E_PENTAGON and writes no cell;
\* at resolution 0 the call succeeds and returns the base cell's neighbor in
\* direction IK.
C2_PentagonCenterK ==
  (pc # "start" /\ PentagonCenter(origin) /\ dir = K_AXES_DIGIT
     /\ rotations = 0)
    => IF H3_GET_RESOLUTION(origin) >= 1
       THEN first.status = "E_PENTAGON" /\ first.out = H3_NULL
       ELSE /\ first.status = "E_SUCCESS"
            /\ H3_GET_BASE_CELL(first.out) =
                 baseCellNeighbors[H3_GET_BASE_CELL(origin)][IK_AXES_DIGIT + 1]

C2_Witness ==
  /\ pc = "stepped"
  /\ PentagonCenter(origin)
  /\ H3_GET_RESOLUTION(origin) = 2
  /\ dir = K_AXES_DIGIT
  /\ rotations = 0
  /\ first.status = "E_PENTAGON"

\* C3: from a well-formed origin, in a direction K..IJ with a rotation count
\* >= 0, the call succeeds, or it returns E_PENTAGON from a pentagon center
\* whose re-oriented direction is K; E_FAILED and E_CELL_INVALID are not
\* returned.
C3_SucceedsUnlessCenterK ==
  (pc # "start" /\ WellFormed(origin)
     /\ dir \in K_AXES_DIGIT..IJ_AXES_DIGIT /\ rotations >= 0)
    => \/ first.status = "E_SUCCESS"
       \/ /\ first.status = "E_PENTAGON"
          /\ PentagonCenter(origin)
          /\ RotateDirection(dir, rotations % 6) = K_AXES_DIGIT

C3_Witness ==
  /\ pc = "stepped"
  /\ WellFormed(origin)
  /\ H3_GET_BASE_CELL(origin) = 4
  /\ H3_GET_RESOLUTION(origin) = 2
  /\ _h3LeadingNonZeroDigit(origin) = IK_AXES_DIGIT
  /\ dir \in K_AXES_DIGIT..IJ_AXES_DIGIT
  /\ rotations > 0
  /\ first.level >= 1
  /\ first.increments = 5
  /\ first.status = "E_SUCCESS"

\* C4 as stated: every direction that is not one of K..IJ, CENTER included,
\* makes the call fail.
C4_RejectsAllButSix ==
  (pc # "start" /\ dir \notin K_AXES_DIGIT..IJ_AXES_DIGIT)
    => first.status = "E_FAILED"

\* C4 amended: every direction below CENTER or from INVALID upward makes the
\* call fail with E_FAILED, with *rotations and *out untouched; direction
\* CENTER is accepted, and from a well-formed origin the call succeeds and
\* returns the origin.
C4_RejectsOutOfRange ==
  pc # "start"
    => /\ (dir < CENTER_DIGIT \/ dir >= INVALID_DIGIT)
            => /\ first.status = "E_FAILED"
               /\ first.out = H3_NULL
               /\ first.rotations = rotations
       /\ (dir = CENTER_DIGIT /\ WellFormed(origin))
            => (first.status = "E_SUCCESS" /\ first.out = origin)

C4_Witness ==
  /\ pc = "stepped"
  /\ dir = CENTER_DIGIT
  /\ WellFormed(origin)
  /\ H3_GET_RESOLUTION(origin) = 2
  /\ first.status = "E_SUCCESS"
  /\ first.out = origin

\* C5 as stated: after a successful call, for any rotation count passed in,
\* the count written back is in 0..5 and is the count passed in plus the
\* increments plus newRotations, modulo 6.
C5_RotationsMod6_AnyInput ==
  (pc # "start" /\ first.status = "E_SUCCESS")
    => /\ first.rotations \in 0..5
       /\ first.rotations =
            (rotations + first.increments + first.newRotations) % 6

\* C5 amended: the same for any rotation count >= 0 passed in.
C5_RotationsMod6 ==
  (pc # "start" /\ first.status = "E_SUCCESS" /\ rotations >= 0)
    => /\ first.rotations \in 0..5
       /\ first.rotations =
            (rotations + first.increments + first.newRotations) % 6

C5_Witness ==
  /\ pc = "stepped"
  /\ first.status = "E_SUCCESS"
  /\ rotations = 7
  /\ first.increments > 0
  /\ first.newRotations > 0
  /\ first.rotations = (8 + first.newRotations) % 6

\* C6: for an index with digits in 0..6, six _h3Rotate60ccw give the index
\* back, six _h3Rotate60cw give it back, and one _h3Rotate60ccw and one
\* _h3Rotate60cw give it back.
C6_SixTurns ==
  DigitsValid(origin)
    => /\ (ccwTurns = 6 /\ cwTurns = 0) => cell = origin
       /\ (ccwTurns = 0 /\ cwTurns = 6) => cell = origin
       /\ (ccwTurns = 1 /\ cwTurns = 1) => cell = origin

C6_Witness ==
  /\ ccwTurns = 6
  /\ cwTurns = 0
  /\ DigitsValid(origin)
  /\ H3_GET_RESOLUTION(origin) = 2
  /\ H3_GET_INDEX_DIGIT(origin, 1) = K_AXES_DIGIT
  /\ H3_GET_INDEX_DIGIT(origin, 2) = IJ_AXES_DIGIT
  /\ cell = origin

\* C7: for an origin under a non-pentagon base cell and a direction K..IJ whose
\* step is absorbed inside the base cell, the step from the rotated origin in
\* the rotated direction is absorbed inside the base cell too and gives the
\* rotated neighbor, with the same rotation count and no increment applied.
C7_StepCommutesWithRotation ==
  (pc = "turned"
     /\ H3_GET_BASE_CELL(origin) \in 0..(NUM_BASE_CELLS - 1)
     /\ ~_isBaseCellPentagon(H3_GET_BASE_CELL(origin))
     /\ DigitsValid(origin)
     /\ first.status = "E_SUCCESS" /\ first.level >= 1)
    => /\ turned.status = "E_SUCCESS"
       /\ turned.out = _h3Rotate60ccw(first.out)
       /\ turned.rotations = first.rotations
       /\ turned.level >= 1
       /\ first.increments = 0 /\ turned.increments = 0

C7_Witness ==
  /\ pc = "turned"
  /\ H3_GET_BASE_CELL(origin) = 0
  /\ DigitsValid(origin)
  /\ H3_GET_RESOLUTION(origin) = 2
  /\ first.status = "E_SUCCESS"
  /\ first.level = 1
  /\ H3_GET_INDEX_DIGIT(first.out, 1) # H3_GET_INDEX_DIGIT(origin, 1)
  /\ turned.out = _h3Rotate60ccw(first.out)
  /\ turned.out # first.out

\* the cells held by the found block b
Stored(b) == {b[loc] : loc \in {l \in DOMAIN b : b[l] # 0}}

\* C8: in the found block no cell is in two slots, the search entries
\* 0..numSearchHexes-1 are pairwise distinct and are exactly the cells of the
\* found block, and numSearchHexes is at most numHexagons.
C8_FoundSetHasNoDuplicates ==
  /\ \A a, b \in DOMAIN found :
       (a # b /\ found[a] # 0) => found[a] # found[b]
  /\ numSearchHexes <= numHexagons
  /\ ~overflow
  /\ \A a, b \in 0..(numSearchHexes - 1) : a # b => search[a] # search[b]
  /\ {search[a] : a \in 0..(numSearchHexes - 1)} = Stored(found)

C8_Witness ==
  /\ numHexagons = 3
  /\ numSearchHexes = 3
  /\ err = "E_FAILED"
  /\ last.err = "E_SUCCESS"
  /\ last.before = found
  /\ last.loopCount = 2

\* C9: tracing a cell fails exactly when, before it, every slot of the found
\* block was occupied and none held the cell; the loop's count never exceeds
\* numHexagons + 1.
C9_FailsExactlyWhenFull ==
  last.err # "none"
    => /\ (last.err = "E_FAILED")
            <=> /\ \A loc \in DOMAIN last.before : last.before[loc] # 0
                /\ last.cell \notin Stored(last.before)
       /\ last.loopCount <= numHexagons + 1

C9_Witness ==
  /\ numHexagons = 3
  /\ last.err = "E_FAILED"
  /\ last.loopCount = 4
  /\ found = last.before

\* C10: _zeroIndexDigits(h, start, end) with 1 <= start <= end <= 15 sets the
\* digits start..end to CENTER and keeps mode, resolution, base cell and the
\* other digits; with start > end it returns h.
C10_ZeroIndexDigits ==
  pc = "zeroed"
    => IF start > end THEN zeroed = origin
       ELSE /\ zeroed.mode = origin.mode
            /\ zeroed.res = origin.res
            /\ zeroed.bc = origin.bc
            /\ \A r \in 1..MAX_H3_RES :
                 zeroed.digits[r] =
                   IF start <= r /\ r <= end THEN CENTER_DIGIT
                   ELSE origin.digits[r]

C10_Witness ==
  /\ pc = "zeroed"
  /\ H3_GET_RESOLUTION(origin) = 1
  /\ start = 2
  /\ end = 14
  /\ origin.digits[1] = IK_AXES_DIGIT
  /\ origin.digits[2] = INVALID_DIGIT
  /\ zeroed.digits[1] = IK_AXES_DIGIT
  /\ zeroed.digits[2] = CENTER_DIGIT
  /\ zeroed.digits[14] = CENTER_DIGIT
  /\ zeroed.digits[15] = INVALID_DIGIT

\* C11: on a finite chain without a cycle, countLinkedPolygons,
\* countLinkedLoops and countLinkedCoords return, the value returned is the
\* number of nodes of the chain (0 for the empty chain), and no next field
\* and no first node is changed.
C11_CountsTheChain ==
  /\ [](pc = "counted" => count = ChainNodes(chainNext, head, MaxNodes))
  /\ [][chainNext' = chainNext /\ head' = head]_vars
  /\ <>(pc = "counted")

C11_Witness ==
  /\ pc = "counted"
  /\ fn = "countLinkedLoops"
  /\ head = 2
  /\ chainNext = (1 :> NULL @@ 2 :> 3 @@ 3 :> 1)
  /\ count = 3

\* C12: lineHexEstimate returns 1 for a point and itself at every resolution
\* 0..15; on success its estimate is at least 1 and is the least whole number
\* n >= 1 with n * 2 * pentagonRadius >= distance, which is
\* max(1, ceil(distance / (2 * pentagonRadius))); when that ratio is not
\* finite it returns E_FAILED and writes no count.
C12_EstimateAtLeastOne ==
  pc = "estimated"
    => LET d == greatCircleDistanceKm(ptA, ptB)
           valid == estRes \in 0..MAX_H3_RES
       IN /\ (ptA = ptB /\ ptA.class = "finite" /\ valid)
               => estimate = [status |-> "E_SUCCESS", out |-> 1]
          /\ estimate.status = "E_SUCCESS"
               => /\ valid /\ d.class = "finite"
                  /\ estimate.out >= 1
                  /\ estimate.out * 2 * pentagonRadiusKm >= d.val
                  /\ estimate.out > 1
                       => (estimate.out - 1) * 2 * pentagonRadiusKm < d.val
          /\ (valid /\ d.class # "finite")
               => estimate = [status |-> "E_FAILED", out |-> NoEstimate.out]

C12_Witness ==
  /\ pc = "estimated"
  /\ estRes = MAX_H3_RES
  /\ ptA = Finite(3)
  /\ ptB = ptA
  /\ pentagonRadiusKm = 2
  /\ estimate = [status |-> "E_SUCCESS", out |-> 1]

\* C13: geoAlmostEqualThreshold(p1, p2, t) is true exactly when p2.lat lies
\* strictly between p1.lat - t and p1.lat + t and p2.lng strictly between
\* p1.lng - t and p1.lng + t; a difference of t or more in one component
\* makes it false; the call with p1 and p2 exchanged gives the same answer.
C13_StrictThreshold ==
  pc = "compared"
    => /\ almost.direct
            <=> /\ p1.lat - threshold < p2.lat /\ p2.lat < p1.lat + threshold
                /\ p1.lng - threshold < p2.lng /\ p2.lng < p1.lng + threshold
       /\ (p2.lat - p1.lat >= threshold \/ p1.lat - p2.lat >= threshold
           \/ p2.lng - p1.lng >= threshold \/ p1.lng - p2.lng >= threshold)
            => ~almost.direct
       /\ almost.swapped = almost.direct

C13_Witness ==
  /\ pc = "compared"
  /\ threshold = 2
  /\ p1 = [lat |-> 0, lng |-> 0]
  /\ p2 = [lat |-> 1, lng |-> 2]
  /\ ~almost.direct
  /\ ~almost.swapped

\* C14: when the walk stops at a level L >= 1 and the base cell is not a
\* pentagon, L is at most the resolution R, the cell returned differs from
\* the origin in digits L..R only (digits 1..L-1, the digits beyond R, base
\* cell, resolution and mode are the origin's), and the rotation count
\* returned is the count passed in reduced by the C remainder of 6, which
\* for a count >= 0 is the count modulo 6.
C14_AbsorbedStepIsLocal ==
  (pc # "start" /\ first.status = "E_SUCCESS" /\ first.level >= 1
     /\ H3_GET_BASE_CELL(origin) \in 0..(NUM_BASE_CELLS - 1)
     /\ ~_isBaseCellPentagon(H3_GET_BASE_CELL(origin)))
    => /\ first.level <= H3_GET_RESOLUTION(origin)
       /\ \A r \in 1..MAX_H3_RES :
            (r < first.level \/ r > H3_GET_RESOLUTION(origin))
              => first.out.digits[r] = origin.digits[r]
       /\ first.out.bc = origin.bc
       /\ first.out.res = origin.res
       /\ first.out.mode = origin.mode
       /\ first.rotations = CRem(rotations, 6)
       /\ rotations >= 0 => first.rotations = rotations % 6

C14_Witness ==
  /\ pc = "stepped"
  /\ first.status = "E_SUCCESS"
  /\ H3_GET_BASE_CELL(origin) = 8
  /\ H3_GET_RESOLUTION(origin) = 2
  /\ first.level = 2
  /\ origin.digits[1] = K_AXES_DIGIT
  /\ first.out.digits[1] = K_AXES_DIGIT
  /\ first.out.digits[2] # origin.digits[2]
  /\ origin.digits[3] = INVALID_DIGIT
  /\ rotations = 7
  /\ first.rotations = 1

RECURSIVE TurnedCcw(_, _)
\* the direction d turned 60 degrees counter-clockwise k times
TurnedCcw(d, k) == IF k <= 0 THEN d ELSE TurnedCcw(_rotate60ccw(d), k - 1)

\* what the tables named II and the tables named III hold for a digit and a
\* direction
LookupII(old, d) ==
  [digit |-> NEW_DIGIT_II[old + 1][d + 1],
   carry |-> NEW_ADJUSTMENT_II[old + 1][d + 1]]

LookupIII(old, d) ==
  [digit |-> NEW_DIGIT_III[old + 1][d + 1],
   carry |-> NEW_ADJUSTMENT_III[old + 1][d + 1]]

\* a walk that stays inside a hexagon base cell, seen from its result: the
\* digit at the resolution R, whether the walk stopped there, and the digit
\* at level R - 1 it reached with a carry, are those of the lookups OfOdd at
\* odd levels and OfEven at even levels
WalkLooksUp(OfOdd(_, _), OfEven(_, _)) ==
  (pc # "start" /\ first.status = "E_SUCCESS" /\ first.level >= 1
     /\ H3_GET_BASE_CELL(origin) \in 0..(NUM_BASE_CELLS - 1)
     /\ ~_isBaseCellPentagon(H3_GET_BASE_CELL(origin))
     /\ DigitsValid(origin))
    => LET R == H3_GET_RESOLUTION(origin)
           d == TurnedCcw(dir, CRem(rotations, 6))
           atR == IF R % 2 = 1 THEN OfOdd(origin.digits[R], d)
                  ELSE OfEven(origin.digits[R], d)
       IN /\ first.out.digits[R] = atR.digit
          /\ first.level = R <=> atR.carry = CENTER_DIGIT
          /\ (atR.carry # CENTER_DIGIT /\ R >= 2)
               => LET below == IF (R - 1) % 2 = 1
                               THEN OfOdd(origin.digits[R - 1], atR.carry)
                               ELSE OfEven(origin.digits[R - 1], atR.carry)
                  IN first.out.digits[R - 1] = below.digit

\* C15 as stated: the walk consults NEW_DIGIT_III and NEW_ADJUSTMENT_III at
\* a level of Class III (odd) and NEW_DIGIT_II and NEW_ADJUSTMENT_II at a
\* level of Class II (even).
C15_TablesNamedAfterTheLevel == WalkLooksUp(LookupIII, LookupII)

\* C15 amended: the walk consults NEW_DIGIT_II and NEW_ADJUSTMENT_II at a
\* level of Class III (odd) and NEW_DIGIT_III and NEW_ADJUSTMENT_III at a
\* level of Class II (even).
C15_TablesOfTheCoarserClass == WalkLooksUp(LookupII, LookupIII)

C15_Witness ==
  /\ pc = "stepped"
  /\ first.status = "E_SUCCESS"
  /\ H3_GET_BASE_CELL(origin) = 0
  /\ DigitsValid(origin)
  /\ H3_GET_RESOLUTION(origin) = 2
  /\ dir \in K_AXES_DIGIT..IJ_AXES_DIGIT
  /\ rotations = 0
  /\ first.level = 1
  /\ LookupIII(origin.digits[2], dir) # LookupII(origin.digits[2], dir)
  /\ first.out.digits[2] = LookupIII(origin.digits[2], dir).digit
  /\ first.out.digits[1] # origin.digits[1]

\* C16: _h3RotatePent60ccw(h) is _h3Rotate60ccw(h) when the leading non-zero
\* digit of _h3Rotate60ccw(h) is not K, and _h3Rotate60ccw applied twice
\* when it is K; _h3RotatePent60cw is the same with the clockwise rotation.
\* Whole-index rotations turn every digit alike, and there are at most two.
C16_PentagonRotationSkipsK ==
  /\ pc = "pentccw"
       => LET once == _h3Rotate60ccw(origin)
          IN cell = IF _h3LeadingNonZeroDigit(once) # K_AXES_DIGIT THEN once
                    ELSE _h3Rotate60ccw(once)
  /\ pc = "pentcw"
       => LET once == _h3Rotate60cw(origin)
          IN cell = IF _h3LeadingNonZeroDigit(once) # K_AXES_DIGIT THEN once
                    ELSE _h3Rotate60cw(once)

C16_Witness ==
  /\ pc = "pentccw"
  /\ H3_GET_RESOLUTION(origin) = 2
  /\ H3_GET_INDEX_DIGIT(origin, 1) = CENTER_DIGIT
  /\ _h3LeadingNonZeroDigit(_h3Rotate60ccw(origin)) = K_AXES_DIGIT
  /\ cell = _h3Rotate60ccw(_h3Rotate60ccw(origin))
  /\ _h3LeadingNonZeroDigit(cell) = IK_AXES_DIGIT

\* the index as the digit walk of the first call leaves it, for an accepted
\* direction and an origin with a base cell of the tables
WalkedIndex ==
  Walk(origin, TurnedCcw(dir, CRem(rotations, 6)),
       H3_GET_RESOLUTION(origin) - 1, H3_GET_BASE_CELL(origin))

\* the first call stayed inside the pentagon base cell of the origin and its
\* walk left an index whose leading non-zero digit is K
WalkedIntoDeletedK ==
  /\ pc # "start"
  /\ dir \in CENTER_DIGIT..IJ_AXES_DIGIT
  /\ H3_GET_BASE_CELL(origin) \in 0..(NUM_BASE_CELLS - 1)
  /\ _isBaseCellPentagon(H3_GET_BASE_CELL(origin))
  /\ WalkedIndex.status = "E_SUCCESS"
  /\ H3_GET_BASE_CELL(WalkedIndex.current) = H3_GET_BASE_CELL(origin)
  /\ _h3LeadingNonZeroDigit(WalkedIndex.current) = K_AXES_DIGIT

\* C17: when a step stays inside one pentagon base cell and the walked index
\* has leading non-zero digit K, an origin with leading digit JK gives the
\* walked index rotated counter-clockwise and the rotation count
\* (input + 1) mod 6, an origin with leading digit IK the walked index
\* rotated clockwise and the count (input + 5) mod 6; the count is computed
\* from the C remainder of the input, the input itself for inputs >= 0.
C17_RotatesOutOfDeletedK ==
  WalkedIntoDeletedK
    => /\ _h3LeadingNonZeroDigit(origin) = JK_AXES_DIGIT
            => /\ first.status = "E_SUCCESS"
               /\ first.out = _h3Rotate60ccw(WalkedIndex.current)
               /\ first.rotations = CRem(CRem(rotations, 6) + 1, 6)
               /\ rotations >= 0 => first.rotations = (rotations + 1) % 6
       /\ _h3LeadingNonZeroDigit(origin) = IK_AXES_DIGIT
            => /\ first.status = "E_SUCCESS"
               /\ first.out = _h3Rotate60cw(WalkedIndex.current)
               /\ first.rotations = CRem(CRem(rotations, 6) + 5, 6)
               /\ rotations >= 0 => first.rotations = (rotations + 5) % 6

C17_Witness ==
  /\ pc = "stepped"
  /\ WalkedIntoDeletedK
  /\ H3_GET_RESOLUTION(origin) = 2
  /\ _h3LeadingNonZeroDigit(origin) = IK_AXES_DIGIT
  /\ rotations = 7
  /\ first.status = "E_SUCCESS"
  /\ first.rotations = 0
  /\ first.out = _h3Rotate60cw(WalkedIndex.current)
  /\ _h3LeadingNonZeroDigit(first.out) = JK_AXES_DIGIT

\* the digit walk of the first call
FirstDigitWalk ==
  DigitWalk(origin, TurnedCcw(dir, CRem(rotations, 6)),
            H3_GET_RESOLUTION(origin) - 1)

\* the carry of the first call reached the base-cell level and the
\* adjacency table holds no neighbor for its direction
CarryMeetsDeletedK ==
  /\ pc # "start"
  /\ dir \in CENTER_DIGIT..IJ_AXES_DIGIT
  /\ H3_GET_BASE_CELL(origin) \in TableRows
  /\ FirstDigitWalk.carried
  /\ baseCellNeighbors[H3_GET_BASE_CELL(origin)][FirstDigitWalk.dir + 1]
       = INVALID_BASE_CELL

\* C18: when the carry reaches the base-cell level and the adjacency table
\* holds INVALID_BASE_CELL for (old base cell, direction), the call
\* succeeds: the base cell becomes the old base cell's neighbor in the IK
\* direction, newRotations that entry's rotation count, the index is rotated
\* counter-clockwise once and the rotation count incremented by one, and the
\* remaining corrections (newRotations more rotations, the remainder of 6)
\* follow.
C18_DeletedKRepair ==
  CarryMeetsDeletedK
    => LET oldBaseCell == H3_GET_BASE_CELL(origin)
           newRotations ==
             baseCellNeighbor60CCWRots[oldBaseCell][IK_AXES_DIGIT + 1]
       IN /\ first.status = "E_SUCCESS"
          /\ H3_GET_BASE_CELL(first.out)
               = baseCellNeighbors[oldBaseCell][IK_AXES_DIGIT + 1]
          /\ H3_GET_BASE_CELL(first.out) # INVALID_BASE_CELL
          /\ first.newRotations = newRotations
          /\ first.increments = 1
          /\ first.level = 0
          /\ \A r \in 1..H3_GET_RESOLUTION(origin) :
               H3_GET_INDEX_DIGIT(first.out, r)
                 = TurnedCcw(H3_GET_INDEX_DIGIT(FirstDigitWalk.current, r),
                             1 + newRotations)
          /\ first.rotations
               = CRem(CRem(rotations, 6) + 1 + newRotations, 6)

C18_Witness ==
  /\ pc = "stepped"
  /\ CarryMeetsDeletedK
  /\ H3_GET_BASE_CELL(origin) = 14
  /\ H3_GET_RESOLUTION(origin) = 2
  /\ dir # K_AXES_DIGIT
  /\ first.status = "E_SUCCESS"
  /\ H3_GET_BASE_CELL(first.out) = 20
  /\ first.increments = 1
  /\ H3_GET_INDEX_DIGIT(first.out, 2) # CENTER_DIGIT

\* the call h3NeighborRotations(origin, d', 0) for the direction d' that is
\* dir rotated counter-clockwise (rotations mod 6) times
CallInTurnedDirection ==
  h3NeighborRotations(origin, TurnedCcw(dir, rotations % 6), 0, H3_NULL)

\* C19: the input rotation count only re-orients the direction: for every
\* origin, direction d in K..IJ and rotation count k >= 0,
\* h3NeighborRotations(origin, d, k) returns the status and the cell of
\* h3NeighborRotations(origin, d rotated counter-clockwise (k mod 6) times,
\* 0), and on success its rotation count is the other call's count plus k,
\* modulo 6.
C19_RotationsReorientTheDirection ==
  (pc # "start" /\ dir \in K_AXES_DIGIT..IJ_AXES_DIGIT /\ rotations >= 0)
    => /\ first.status = CallInTurnedDirection.status
       /\ first.out = CallInTurnedDirection.out
       /\ first.status = "E_SUCCESS"
            => first.rotations
                 = (CallInTurnedDirection.rotations + rotations) % 6

C19_Witness ==
  /\ pc = "stepped"
  /\ dir = K_AXES_DIGIT
  /\ rotations = 7
  /\ H3_GET_BASE_CELL(origin) = 4
  /\ H3_GET_RESOLUTION(origin) = 2
  /\ first.status = "E_SUCCESS"
  /\ first.increments > 0
  /\ first.out = CallInTurnedDirection.out
  /\ first.out # h3NeighborRotations(origin, dir, 0, H3_NULL).out
  /\ first.rotations # CallInTurnedDirection.rotations

\* the statuses a failed call of _getEdgeHexagons returns
EdgeFailures == {"E_FAILED", "E_LATLNG_DOMAIN"}

\* the blocks b hold every entry of the blocks a, at the same place, and a
\* count that is not smaller
Retains(a, b) ==
  /\ \A loc \in DOMAIN a.found :
       a.found[loc] # 0 => b.found[loc] = a.found[loc]
  /\ \A k \in DOMAIN a.search :
       k < a.numSearchHexes => b.search[k] = a.search[k]
  /\ b.numSearchHexes >= a.numSearchHexes

\* C20 as stated: when _getEdgeHexagons fails, the found block, the search
\* block and the count are exactly what they were when the failing edge
\* began; the failing edge contributes no entry.
C20_FailingEdgeLeavesNothing ==
  (pc = "idle" /\ err \in EdgeFailures)
    => Blocks(found, search, numSearchHexes) = committed

\* C20 amended: when _getEdgeHexagons fails, the found block, the search
\* block and the count are exactly what they were before the failing point:
\* the entries of the earlier edges and of the earlier points of the failing
\* edge are retained unchanged (no slot cleared or overwritten, the count
\* not decreased), and the failing step contributes no entry.
C20_FailingPointLeavesNothing ==
  /\ [][(err = "running" /\ err' \in EdgeFailures)
          => /\ found' = found
             /\ search' = search
             /\ numSearchHexes' = numSearchHexes]_vars
  /\ []((pc = "idle" /\ err \in EdgeFailures)
          => Retains(committed, Blocks(found, search, numSearchHexes)))
  /\ [][Retains(Blocks(found, search, numSearchHexes),
                Blocks(found', search', numSearchHexes'))]_vars

C20_Witness ==
  /\ pc = "idle"
  /\ err = "E_FAILED"
  /\ last.err = "E_FAILED"
  /\ last.before = found
  /\ committed.numSearchHexes >= 1
  /\ numSearchHexes > committed.numSearchHexes
  /\ found # committed.found

\* C21: whenever h3NeighborRotations returns success and the base cell of
\* the cell returned is a pentagon, the leading non-zero digit of that cell
\* is not K, for any origin, direction and rotation count and any contents
\* of the entries of the adjacency and rotation tables.
C21_NeverReturnsDeletedK ==
  (pc = "looked" /\ first.status = "E_SUCCESS"
     /\ _isBaseCellPentagon(H3_GET_BASE_CELL(first.out)))
    => _h3LeadingNonZeroDigit(first.out) # K_AXES_DIGIT

C21_Witness ==
  /\ pc = "looked"
  /\ first.status = "E_SUCCESS"
  /\ H3_GET_BASE_CELL(origin) = 9
  /\ H3_GET_BASE_CELL(first.out) = 14
  /\ H3_GET_RESOLUTION(origin) = 2
  /\ first.level = 0
  /\ first.newRotations = 5
  /\ _h3LeadingNonZeroDigit(FirstDigitWalk.current) = K_AXES_DIGIT
  /\ _h3LeadingNonZeroDigit(first.out) \in {JK_AXES_DIGIT, IK_AXES_DIGIT}

\* C22: for an index whose digits 1..R are in 0..6 and whose leading
\* non-zero digit is not K (the all-CENTER index included),
\* _h3RotatePent60ccw applied five times gives the index back, and so does
\* _h3RotatePent60cw applied five times; no result on the way has leading
\* non-zero digit K.
C22_FiveTurnsAboutAPentagon ==
  (pc = "pentturn" /\ DigitsValid(origin)
     /\ _h3LeadingNonZeroDigit(origin) # K_AXES_DIGIT)
    => /\ (ccwTurns = 5 /\ cwTurns = 0) => cell = origin
       /\ (cwTurns = 5 /\ ccwTurns = 0) => cell = origin
       /\ (ccwTurns = 0 \/ cwTurns = 0)
            => _h3LeadingNonZeroDigit(cell) # K_AXES_DIGIT

C22_Witness ==
  /\ pc = "pentturn"
  /\ cwTurns = 5
  /\ ccwTurns = 0
  /\ H3_GET_RESOLUTION(origin) = 2
  /\ H3_GET_INDEX_DIGIT(origin, 1) = JK_AXES_DIGIT
  /\ H3_GET_INDEX_DIGIT(origin, 2) = K_AXES_DIGIT
  /\ cell = origin

====
